---- MODULE Spec2Model ----
(***************************************************************************)
(* Call-broadcast backend: the batch dispatch endpoint (src/index.js), the *)
(* status-tracking webhook controller (src/callControl.js) and the         *)
(* consent-flow webhook controller (src/unnamed/part_000), over the call   *)
(* record store (src/firebaseService.js).                                  *)
(*                                                                         *)
(* Values: a phone number, a contact and a script are positive integers,   *)
(* 0 stands for JavaScript's undefined.  Call identifiers are pairs        *)
(* <<"leg", i>> (issued by the provider) or <<"synthetic", i>> (made up by *)
(* the dispatcher).                                                        *)
(***************************************************************************)
EXTENDS Integers, Sequences, FiniteSets, TLC

VARIABLES
  calls,        \* the store's 'calls' collection: call id -> record
  broadcasts,   \* the store's 'broadcasts' collection: broadcast id -> session
  dispatch,     \* the running POST /api/make-call request: position and locals
  createCount,  \* telnyx.calls.create requests sent by the dispatch
  response,     \* responses sent on the dispatch request's res object
  controller,   \* the webhook controller mounted on POST /webhook
  handlers,     \* webhook requests in flight: slot -> position and locals
  callStates,   \* part_000's callStates map, per call id
  provider,     \* speak requests sent to the provider so far, per call id
  timers,       \* pending setTimeout hangups, per call id
  monitor,      \* per call id: observer of the order of the events delivered
  cancel,       \* the running POST /api/cancel-all-calls request
  storeOp       \* the last updateCallStatus call made on a store directly

vars == <<calls, broadcasts, dispatch, createCount, response, controller,
          handlers, callStates, provider, timers, monitor, cancel, storeOp>>

\* what a dispatch request leaves alone, and what a webhook request leaves alone
webhookVars == <<controller, handlers, callStates, provider, timers, monitor,
                 cancel, storeOp>>
dispatchVars == <<broadcasts, dispatch, createCount, response, cancel, storeOp>>

-----------------------------------------------------------------------------
(* Bounds *)

MaxPhones == 3

-----------------------------------------------------------------------------
(* Values *)

Undefined == 0

Min(a, b) == IF a < b THEN a ELSE b

\* Array.prototype.slice(0, n)
Slice(s, n) == SubSeq(s, 1, Min(Len(s), n))

\* arr[i] of a JavaScript array, 0-based i: undefined past the end
At(arr, i) == IF i + 1 <= Len(arr) THEN arr[i + 1] ELSE Undefined

Statuses == {"pending", "initiated", "ringing", "answered", "in-progress",
             "voicemail", "completed", "no-answer", "busy", "canceled",
             "rejected", "failed"}

\* A document of the 'calls' collection.  Fields a writer does not supply are
\* absent from the document (cleanUndefinedValues drops them): Undefined here.
BlankRecord ==
  [status |-> "undefined", broadcastId |-> Undefined, contactId |-> Undefined,
   contactName |-> Undefined, phoneNumber |-> Undefined, script |-> Undefined,
   isSynthetic |-> FALSE, hangupCause |-> "undefined", duration |-> -1,
   isShortDuration |-> FALSE, answered |-> FALSE]

-----------------------------------------------------------------------------
(* The store: src/firebaseService.js, second FirebaseService *)

\* storeCallData: docRef.set(...) replaces the whole document
StoreCallData(store, id, data) == (id :> data) @@ store

\* getCallData: the document, or null (BlankRecord with status "undefined")
GetCallData(store, id) == IF id \in DOMAIN store THEN store[id] ELSE BlankRecord

HasRecord(store, id) == id \in DOMAIN store

\* storeBroadcastSession: docRef.set(...) on the 'broadcasts' collection
StoreBroadcastSession(store, id, data) == (id :> data) @@ store

-----------------------------------------------------------------------------
(* POST /api/make-call: src/index.js *)

\* The request body.  phonenumber is the list of the comma-separated pieces
\* after trim: piece i is the number i, or 0 when it is blank; an empty list
\* is a missing or empty phonenumber.  content is the list of scripts (one
\* script is a list of one); hasContent is FALSE when the field is missing.
Bodies ==
  [phonenumber : UNION {[1..k -> {0, 1}] : k \in 0..MaxPhones},
   hasContacts : BOOLEAN,
   hasNames    : BOOLEAN,
   hasContent  : BOOLEAN,
   content     : 0..MaxPhones]

\* phonenumber.split(',').map(trim).filter(p => p): the non-blank pieces,
\* each named by its position in the request
PhonePieces(body) == [i \in 1..Len(body.phonenumber) |->
                        IF body.phonenumber[i] = 1 THEN i ELSE 0]

IsNonBlank(p) == p # 0

ParsePhoneNumbers(body) == SelectSeq(PhonePieces(body), IsNonBlank)

\* contact_id.split(',').map(trim): one contact per piece, blanks kept
ParseContacts(body) ==
  IF body.hasContacts THEN [i \in 1..Len(body.phonenumber) |-> i] ELSE <<>>

\* contact_name.split(',').map(trim)
ParseNames(body) ==
  IF body.hasNames THEN [i \in 1..Len(body.phonenumber) |-> i] ELSE <<>>

\* Array.isArray(content) ? content : [content]
ParseContents(body) == [i \in 1..body.content |-> i]

\* errors of telnyx.calls.create: the first error's detail and the HTTP status
ProviderErrors ==
  {[detail |-> "channel limit exceeded", status |-> 400],
   [detail |-> "forbidden", status |-> 403],
   [detail |-> "invalid number", status |-> 422],
   [detail |-> "timeout", status |-> 0]}

\* IsChannelLimitError without the test of the HTTP status
IsChannelLimitErrorByMessage(err) == err.detail = "channel limit exceeded"

\* errorMsg.includes('channel limit exceeded') || error.response?.status === 403
IsChannelLimitError(err) ==
  err.detail = "channel limit exceeded" \/ err.status = 403

\* Math.min(20000 + (channelLimitHits * 10000), 120000)
WaitTime(hits) == Min(20000 + (hits * 10000), 120000)

BroadcastIdOf == <<"broadcast", 1>>

\* the call legs of a provider response with m legs
CallLegs(m) == [i \in 1..m |-> <<"leg", i>>]

\* phoneNumbers.map((_, idx) => `synthetic_${timestamp}_${idx}_...`)
SyntheticCallSids(phoneNumbers) ==
  [i \in 1..Len(phoneNumbers) |-> <<"synthetic", i - 1>>]

\* the record passed to storeCallData for destination index (0-based)
DispatchRecord(d, index, synthetic) ==
  [BlankRecord EXCEPT
     !.status = "pending",
     !.broadcastId = 1,
     !.contactId = At(d.contactIds, index),
     !.contactName = At(d.contactNames, index),
     !.phoneNumber = At(d.phoneNumbers, index),
     !.script = At(d.contents, index),
     !.isSynthetic = synthetic]

NoError == [detail |-> "none", status |-> 0]

\* no cancellation request yet; started is the store as the request found it,
\* hangupFailed, writeFailed and counted name the calls whose hangup request
\* failed, whose status write failed, and which canceledCount counts
IdleCancel ==
  [pc |-> "idle", broadcastId |-> Undefined, list |-> <<>>, index |-> 0,
   exists |-> FALSE, inCatch |-> FALSE, canceledCount |-> 0, resp |-> <<>>,
   started |-> <<>>, hangupFailed |-> {}, writeFailed |-> {}, counted |-> {}]

\* no updateCallStatus call yet
NoStoreOp == [store |-> "none", id |-> <<"none", 0>>, status |-> "undefined",
              found |-> FALSE, ok |-> FALSE]

\* the request's locals; path names the branch that produced the response
IdleDispatch ==
  [pc |-> "idle", phoneNumbers |-> <<>>, contactIds |-> <<>>,
   contactNames |-> <<>>, contents |-> <<>>,
   channelLimitHits |-> 0, sids |-> <<>>, index |-> 0, firstError |-> NoError,
   legsReturned |-> -1, waited |-> 0, path |-> "none", storeErrors |-> 0,
   retryError |-> NoError]

Respond(status, success, callSids, hits) ==
  response' = Append(response,
     [status |-> status, success |-> success, callSids |-> callSids,
      channelLimitHits |-> hits])

\* lines 41-65: validation and parsing; a 400 ends the request
DispatchRequest ==
  /\ dispatch.pc = "idle"
  /\ \E body \in Bodies :
       LET phoneNumbers == ParsePhoneNumbers(body) IN
       IF Len(body.phonenumber) = 0 \/ ~body.hasContent
       THEN /\ Respond(400, FALSE, <<>>, 0)
            /\ dispatch' = [dispatch EXCEPT !.pc = "done", !.path = "invalid"]
       ELSE IF Len(phoneNumbers) = 0
       THEN /\ Respond(400, FALSE, <<>>, 0)
            /\ dispatch' = [dispatch EXCEPT !.pc = "done", !.path = "invalid"]
       ELSE /\ dispatch' = [dispatch EXCEPT
                 !.pc = "session",
                 !.phoneNumbers = phoneNumbers,
                 !.contactIds = ParseContacts(body),
                 !.contactNames = ParseNames(body),
                 !.contents = ParseContents(body)]
            /\ UNCHANGED response
  /\ UNCHANGED <<calls, broadcasts, createCount>>
  /\ UNCHANGED webhookVars

\* lines 67-79: the broadcast session is stored; a store error is logged only
StoreSession ==
  /\ dispatch.pc = "session"
  /\ \E ok \in BOOLEAN :
       /\ broadcasts' = IF ok
                        THEN StoreBroadcastSession(broadcasts, BroadcastIdOf,
                               [totalCalls |-> Len(dispatch.phoneNumbers),
                                status |-> "active"])
                        ELSE broadcasts
       /\ dispatch' = [dispatch EXCEPT
            !.pc = "create",
            !.storeErrors = IF ok THEN @ ELSE @ + 1]
  /\ UNCHANGED <<calls, createCount, response>>
  /\ UNCHANGED webhookVars

\* lines 134-148, 207-218, 248-256, 288-296: res.status(201).json(...)
Finish(d, hits) ==
  /\ Respond(201, TRUE, d.sids, hits)
  /\ dispatch' = [d EXCEPT !.pc = "done"]

\* lines 81-110 and 150-160, 258-263: the first telnyx.calls.create
CreateCall ==
  /\ dispatch.pc = "create"
  /\ createCount' = createCount + 1
  /\ \/ \E m \in 0..(Len(dispatch.phoneNumbers) + 1) :
          LET d == [dispatch EXCEPT
                      !.sids = Slice(CallLegs(m), Len(dispatch.phoneNumbers)),
                      !.legsReturned = m, !.index = 0, !.path = "first"]
          IN IF Len(d.sids) = 0
             THEN Finish(d, 0)
             ELSE dispatch' = [d EXCEPT !.pc = "store"] /\ UNCHANGED response
     \/ \E err \in ProviderErrors :
          /\ UNCHANGED response
          /\ IF IsChannelLimitError(err)
             THEN dispatch' = [dispatch EXCEPT
                    !.pc = "wait", !.firstError = err,
                    !.channelLimitHits = @ + 1]
             ELSE dispatch' = [dispatch EXCEPT
                    !.pc = "storeSynthetic", !.firstError = err,
                    !.sids = SyntheticCallSids(dispatch.phoneNumbers),
                    !.index = 0, !.path = "generic"]
  /\ UNCHANGED <<calls, broadcasts>>
  /\ UNCHANGED webhookVars

\* lines 157-160: the wait before the retry
RetryWait ==
  /\ dispatch.pc = "wait"
  /\ dispatch' = [dispatch EXCEPT
       !.pc = "retry", !.waited = WaitTime(dispatch.channelLimitHits)]
  /\ UNCHANGED <<calls, broadcasts, createCount, response>>
  /\ UNCHANGED webhookVars

\* lines 220-223 and 299-305: the retry failed; building the synthetic ids
\* reads `timestamp`, which is declared in the other branch only (line 262):
\* a ReferenceError, caught by the outer catch, which answers 500
RetryFailed(d) ==
  /\ Respond(500, FALSE, <<>>, 0)
  /\ dispatch' = [d EXCEPT !.pc = "done", !.path = "retryFailed"]

\* lines 162-184 and 220-223: the one retry of telnyx.calls.create
RetryCreate ==
  /\ dispatch.pc = "retry"
  /\ createCount' = createCount + 1
  /\ \/ \E m \in 0..(Len(dispatch.phoneNumbers) + 1) :
          LET d == [dispatch EXCEPT
                      !.sids = Slice(CallLegs(m), Len(dispatch.phoneNumbers)),
                      !.legsReturned = m, !.index = 0, !.path = "retry"]
          IN IF Len(d.sids) = 0
             THEN Finish(d, d.channelLimitHits)
             ELSE dispatch' = [d EXCEPT !.pc = "store"] /\ UNCHANGED response
     \/ \E err \in ProviderErrors :
          RetryFailed([dispatch EXCEPT !.retryError = err])
  /\ UNCHANGED <<calls, broadcasts>>
  /\ UNCHANGED webhookVars

\* lines 112-148 and 186-218: one turn of the loop storing the call legs;
\* after the last one the response is sent
StoreLeg ==
  /\ dispatch.pc = "store"
  /\ \E ok \in BOOLEAN :
       /\ calls' = IF ok
                   THEN StoreCallData(calls, dispatch.sids[dispatch.index + 1],
                          DispatchRecord(dispatch, dispatch.index, FALSE))
                   ELSE calls
       /\ LET d == [dispatch EXCEPT
                      !.index = @ + 1,
                      !.storeErrors = IF ok THEN @ ELSE @ + 1]
          IN IF d.index = Len(d.sids)
             THEN Finish(d, IF d.path = "first" THEN 0 ELSE d.channelLimitHits)
             ELSE dispatch' = d /\ UNCHANGED response
  /\ UNCHANGED <<broadcasts, createCount>>
  /\ UNCHANGED webhookVars

\* lines 264-296: one turn of the loop storing the synthetic records
StoreSynthetic ==
  /\ dispatch.pc = "storeSynthetic"
  /\ \E ok \in BOOLEAN :
       /\ calls' = IF ok
                   THEN StoreCallData(calls, dispatch.sids[dispatch.index + 1],
                          DispatchRecord(dispatch, dispatch.index, TRUE))
                   ELSE calls
       /\ LET d == [dispatch EXCEPT
                      !.index = @ + 1,
                      !.storeErrors = IF ok THEN @ ELSE @ + 1]
          IN IF d.index = Len(d.sids)
             THEN Finish(d, d.channelLimitHits)
             ELSE dispatch' = d /\ UNCHANGED response
  /\ UNCHANGED <<broadcasts, createCount>>
  /\ UNCHANGED webhookVars

InitDispatch ==
  /\ calls = <<>>
  /\ broadcasts = <<>>
  /\ dispatch = IdleDispatch
  /\ createCount = 0
  /\ response = <<>>
  /\ controller = "none"
  /\ handlers = <<>>
  /\ callStates = <<>>
  /\ provider = <<>>
  /\ timers = <<>>
  /\ monitor = <<>>
  /\ cancel = IdleCancel
  /\ storeOp = NoStoreOp

SpecDispatch ==
  /\ InitDispatch
  /\ [][\/ DispatchRequest
        \/ StoreSession
        \/ CreateCall
        \/ RetryWait
        \/ RetryCreate
        \/ StoreLeg
        \/ StoreSynthetic]_vars

-----------------------------------------------------------------------------
(* Webhook requests: what both controllers share *)

CallIds == {<<"leg", 1>>}

\* event.data.payload.call_control_id is missing
NoCallId == <<"none", 0>>

\* webhook requests that can be in flight at the same time
Slots == {1, 2}

\* one webhook request at a time: the requests take this slot
OneSlot == {1}

MaxSpeaks == 2

MaxTimers == 1

MIN_ANSWERED_DURATION_SECS == 6

HangupCauses == {"NO_ANSWER", "BUSY", "CANCEL", "REJECTED", "FAILED",
                 "NORMAL_CLEARING", "undefined"}

\* call_duration_secs of a hangup payload: below 2, below the minimum answered
\* duration, and above it
Durations == {0, 3, 8}

BlankEvent ==
  [type |-> "-", cause |-> "-", duration |-> 0, result |-> "-",
   digits |-> "-", status |-> "-", direction |-> "-"]

\* no answeredAt on the record: answeredAtMs stays null
NullMs == -1

\* seconds between the record's answeredAt and the Date.now() of the
\* speak-ended handler: right away, before the minimum duration, after it
Elapsed == {0, 3, 8}

\* the hangup timer a speak-ended handler has set: the record's answeredAt
\* (or NullMs), the handler's Date.now() and the delay, in milliseconds
NoTimer == [answeredAtMs |-> NullMs, nowMs |-> NullMs, waitMs |-> NullMs]

\* pc "free": no request; "done": the request has returned
FreeHandler ==
  [pc |-> "free", call |-> NoCallId, event |-> BlankEvent, exists |-> FALSE,
   obj |-> 0, sawFalse |-> FALSE, spoke |-> FALSE, script |-> Undefined,
   failed |-> FALSE, resp |-> <<>>, timer |-> NoTimer, issued |-> <<>>,
   errors |-> <<>>]

Active(hr) == hr.pc \notin {"free", "done"}

\* the request has returned: what it sent on res, and what it did: the state
\* object it held, whether it found scriptPlayed false, whether it sent the
\* speak request with the script, whether an operation of it failed, the
\* hangup timer it set, the provider requests and timers it issued, in order,
\* and those of its provider requests that failed
Returned(hr, code) ==
  [FreeHandler EXCEPT
     !.pc = "done", !.call = hr.call, !.obj = hr.obj,
     !.sawFalse = hr.sawFalse, !.spoke = hr.spoke, !.failed = hr.failed,
     !.resp = Append(hr.resp, code), !.timer = hr.timer,
     !.issued = hr.issued, !.errors = hr.errors]

\* a store operation or a provider request of the handler has failed or not
Outcome(hr, ok) == [hr EXCEPT !.failed = @ \/ ~ok]

\* the handler has sent a provider request (axios.post, telnyx.calls.*) or
\* called setTimeout
Issue(hr, what) == [hr EXCEPT !.issued = Append(@, what)]

\* a failed provider request ends the handler with the acknowledgment
SentOrReturned(hr, what, ok) ==
  IF ok THEN Issue(hr, what)
  ELSE Returned([Issue(hr, what) EXCEPT
                   !.failed = TRUE, !.errors = Append(@, what)], 200)

\* src/callControl.js lines 45-60, src/unnamed/part_000 lines 161-230: a
\* provider request inside its own try/catch: the failure is logged by
\* console.error and the handler goes on
Sent(hr, what, ok) ==
  IF ok THEN Issue(hr, what)
  ELSE [Issue(hr, what) EXCEPT !.failed = TRUE, !.errors = Append(@, what)]

\* the requests the provider has received for a call: the speak requests with
\* the script, and the gather requests of gatherInput
NoSpeaks == [script |-> 0, gather |-> 0]

\* a timer set for every call the process knows
ScheduleEveryCall(c) == timers' = [x \in DOMAIN timers |-> timers[x] + 1]

\* setTimeout(() => hangup, ...): one more pending timer for the call
Schedule(c) == timers' = [timers EXCEPT ![c] = @ + 1]

\* the callback of a pending hangup timer runs: the hangup request is sent;
\* its failure is logged only
HangupTimerFires(c) ==
  /\ timers[c] > 0
  /\ timers' = [timers EXCEPT ![c] = @ - 1]
  /\ UNCHANGED <<calls, controller, handlers, callStates, provider, monitor>>
  /\ UNCHANGED dispatchVars

\* the records a webhook can find: none, or the dispatcher's pending record
\* with or without a script
InitialRecords ==
  {[BlankRecord EXCEPT !.status = "pending", !.broadcastId = 1,
      !.phoneNumber = 1, !.script = sc] : sc \in {Undefined, 1}}

InitialStores ==
  UNION {[ids -> InitialRecords] : ids \in SUBSET CallIds}

InitWebhookOn(ctl, stores) ==
  /\ calls \in stores
  /\ broadcasts = <<>>
  /\ dispatch = IdleDispatch
  /\ createCount = 0
  /\ response = <<>>
  /\ controller = ctl
  /\ handlers = [h \in Slots |-> FreeHandler]
  /\ callStates = [c \in CallIds |-> [objs |-> <<>>, live |-> FALSE, rises |-> 0]]
  /\ provider = [c \in CallIds |-> NoSpeaks]
  /\ timers = [c \in CallIds |-> 0]
  /\ monitor = [c \in CallIds |-> "start"]
  /\ cancel = IdleCancel
  /\ storeOp = NoStoreOp

InitWebhook(ctl) == InitWebhookOn(ctl, InitialStores)

-----------------------------------------------------------------------------
(* The status-tracking webhook controller: src/callControl.js *)

StatusEvents ==
  {[BlankEvent EXCEPT !.type = t] :
     t \in {"call.ringing", "call.answered",
            "call.speak.ended", "call.bridged", "call.dtmf.received"}}
  \cup {[BlankEvent EXCEPT !.type = "call.initiated", !.direction = d] :
          d \in {"incoming", "outgoing"}}
  \cup {[BlankEvent EXCEPT !.type = "call.hangup", !.cause = hc, !.duration = d] :
          hc \in HangupCauses, d \in Durations}
  \cup {[BlankEvent EXCEPT !.type = "call.machine.detection.ended", !.result = r] :
          r \in {"human", "machine", "not_sure"}}

\* HangupStatus with the short-call test made before the hangup cause is looked at
HangupStatusDurationFirst(cause, duration) ==
  IF duration < 2 THEN "failed"
  ELSE IF cause = "NO_ANSWER" THEN "no-answer"
  ELSE IF cause = "BUSY" THEN "busy"
  ELSE IF cause = "CANCEL" THEN "canceled"
  ELSE IF cause = "REJECTED" THEN "rejected"
  ELSE IF cause = "FAILED" THEN "failed"
  ELSE "completed"

\* lines 64-89: the status of an ended call, from the hangup payload
HangupStatus(cause, duration) ==
  IF cause = "NO_ANSWER" THEN "no-answer"
  ELSE IF cause = "BUSY" THEN "busy"
  ELSE IF cause = "CANCEL" THEN "canceled"
  ELSE IF cause = "REJECTED" THEN "rejected"
  ELSE IF cause = "FAILED" THEN "failed"
  ELSE IF duration < 2 THEN "failed"
  ELSE "completed"

\* the arguments of the event's updateCallStatus call: the status, and which
\* extra fields come with it
NoExtra == [answeredAt |-> FALSE, hangup |-> FALSE, hangupCause |-> "undefined",
            duration |-> 0]

StatusUpdateOf(e) ==
  CASE e.type = "call.initiated" -> [status |-> "initiated", extra |-> NoExtra]
    [] e.type = "call.ringing" -> [status |-> "ringing", extra |-> NoExtra]
    [] e.type = "call.answered" ->
         [status |-> "answered", extra |-> [NoExtra EXCEPT !.answeredAt = TRUE]]
    [] e.type = "call.hangup" ->
         [status |-> HangupStatus(e.cause, e.duration),
          extra |-> [NoExtra EXCEPT !.hangup = TRUE, !.hangupCause = e.cause,
                                    !.duration = e.duration]]
    [] e.type = "call.machine.detection.ended" /\ e.result = "human" ->
         [status |-> "answered", extra |-> [NoExtra EXCEPT !.answeredAt = TRUE]]
    [] e.type = "call.machine.detection.ended" /\ e.result = "machine" ->
         [status |-> "voicemail", extra |-> NoExtra]
    [] e.type = "call.speak.ended" -> [status |-> "completed", extra |-> NoExtra]
    [] e.type = "call.bridged" -> [status |-> "in-progress", extra |-> NoExtra]
    [] OTHER -> [status |-> "none", extra |-> NoExtra]

\* the event type has a case that updates the record
UpdatesStatus(e) == StatusUpdateOf(e).status # "none"

\* the event reads the record back after the update
ReadsRecord(e) ==
  \/ e.type \in {"call.answered", "call.speak.ended"}
  \/ e.type = "call.machine.detection.ended" /\ e.result = "machine"

\* src/firebaseService.js lines 302-305, 315-327: status and the defined extra
\* fields are merged into the document
MergeStatus(r, status, extra) ==
  [r EXCEPT
     !.status = status,
     !.answered = IF extra.answeredAt THEN TRUE ELSE @,
     !.hangupCause = IF extra.hangup /\ extra.hangupCause # "undefined"
                     THEN extra.hangupCause ELSE @,
     !.duration = IF extra.hangup THEN extra.duration ELSE @,
     !.isShortDuration = IF extra.hangup
                         THEN extra.duration < MIN_ANSWERED_DURATION_SECS
                         ELSE @]

\* src/firebaseService.js lines 311-328: update the document when the get
\* found it, create it when not
UpdateCallStatus(store, id, exists, status, extra) ==
  IF exists /\ id \in DOMAIN store
  THEN (id :> MergeStatus(store[id], status, extra)) @@ store
  ELSE (id :> MergeStatus(BlankRecord, status, extra)) @@ store

\* line 211: return res.sendStatus(200)
SendStatus200(hr) == Returned(hr, 200)

\* CatchError answering with the status of a failure
CatchErrorStatus500(hr) == Returned(hr, 500)

\* lines 212-215: catch (err) { return res.status(200).send('ok') }
CatchError(hr) == Returned(hr, 200)

\* StatusFirstStep testing the call id only for the events whose case reads
\* the record back
StatusFirstStepLateIdTest(hr) ==
  IF hr.call = NoCallId /\ ReadsRecord(hr.event) THEN SendStatus200(hr)
  ELSE IF UpdatesStatus(hr.event) THEN [hr EXCEPT !.pc = "updateGet"]
  ELSE SendStatus200(hr)

\* lines 20-23 and 26-33: without a call id the request is answered at once;
\* with one, the event's case runs up to its first await
StatusFirstStep(hr) ==
  IF hr.call = NoCallId THEN SendStatus200(hr)
  ELSE IF UpdatesStatus(hr.event) THEN [hr EXCEPT !.pc = "updateGet"]
  ELSE SendStatus200(hr)

\* lines 12-33, 66-90, 100-106, 131-133, 202-208: a request arrives and runs
\* up to its first await
StatusDeliverOf(h, events) ==
  /\ controller = "callControl"
  /\ ~Active(handlers[h])
  /\ \E c \in DOMAIN timers \cup {NoCallId}, e \in events :
       handlers' = [handlers EXCEPT ![h] =
          StatusFirstStep([FreeHandler EXCEPT !.call = c, !.event = e])]
  /\ UNCHANGED <<calls, controller, callStates, provider, timers, monitor>>
  /\ UNCHANGED dispatchVars

StatusDeliver(h) == StatusDeliverOf(h, StatusEvents)

\* src/firebaseService.js line 311: updateCallStatus reads the document
StatusUpdateGet(h) ==
  /\ controller = "callControl"
  /\ handlers[h].pc = "updateGet"
  /\ LET hr == handlers[h] IN
     \E ok \in BOOLEAN :
       handlers' = [handlers EXCEPT ![h] =
          IF ok THEN [hr EXCEPT !.pc = "updateWrite",
                                !.exists = HasRecord(calls, hr.call)]
          ELSE CatchError(Outcome(hr, ok))]
  /\ UNCHANGED <<calls, controller, callStates, provider, timers, monitor>>
  /\ UNCHANGED dispatchVars

\* src/firebaseService.js lines 313-331: updateCallStatus writes the document;
\* then the handler reads the record back or returns
StatusUpdateWrite(h) ==
  /\ controller = "callControl"
  /\ handlers[h].pc = "updateWrite"
  /\ LET hr == handlers[h]
         u == StatusUpdateOf(hr.event)
     IN \E ok \in BOOLEAN :
          /\ calls' = IF ok
                      THEN UpdateCallStatus(calls, hr.call, hr.exists,
                                            u.status, u.extra)
                      ELSE calls
          /\ handlers' = [handlers EXCEPT ![h] =
               IF ~ok THEN CatchError(Outcome(hr, ok))
               ELSE IF ReadsRecord(hr.event) THEN [hr EXCEPT !.pc = "getData"]
               ELSE SendStatus200(hr)]
  /\ UNCHANGED <<controller, callStates, provider, timers, monitor>>
  /\ UNCHANGED dispatchVars

\* lines 41-43 and 109-110: getCallData for the script
StatusGetScript(h) ==
  /\ controller = "callControl"
  /\ handlers[h].pc = "getData"
  /\ handlers[h].event.type # "call.speak.ended"
  /\ LET hr == handlers[h]
         callData == GetCallData(calls, hr.call)
     IN \E ok \in BOOLEAN :
          handlers' = [handlers EXCEPT ![h] =
            IF ~ok THEN CatchError(Outcome(hr, ok))
            ELSE IF HasRecord(calls, hr.call) /\ callData.script # Undefined
            THEN [hr EXCEPT !.pc = "speak", !.script = callData.script]
            ELSE SendStatus200(hr)]
  /\ UNCHANGED <<calls, controller, callStates, provider, timers, monitor>>
  /\ UNCHANGED dispatchVars

\* lines 45-60 and 111-126: the speak request with the script; its failure is
\* logged only
StatusSpeak(h) ==
  /\ controller = "callControl"
  /\ handlers[h].pc = "speak"
  /\ LET hr == handlers[h] IN
       /\ provider[hr.call].script < MaxSpeaks
       /\ provider' = [provider EXCEPT ![hr.call].script = @ + 1]
       /\ \E ok \in BOOLEAN :
            handlers' = [handlers EXCEPT ![h] =
              SendStatus200(Sent(hr, "speak:script", ok))]
  /\ UNCHANGED <<calls, controller, callStates, timers, monitor>>
  /\ UNCHANGED dispatchVars

MsPerSecond == 1000

\* line 198: the delay of the hangup when reading the record failed
DefaultHangupWaitMs == 1000

\* line 149: (answeredAtMs || nowMs) + (MIN_ANSWERED_DURATION_SECS * 1000)
MinEndMs(answeredAtMs, nowMs) ==
  (IF answeredAtMs # NullMs THEN answeredAtMs ELSE nowMs)
    + (MIN_ANSWERED_DURATION_SECS * MsPerSecond)

\* line 150: Math.max(0, minEndMs - nowMs)
WaitMs(answeredAtMs, nowMs) ==
  LET remaining == MinEndMs(answeredAtMs, nowMs) - nowMs
  IN IF remaining > 0 THEN remaining ELSE 0

\* lines 136-199: the delay passed to setTimeout: the computed one when the
\* record was read, the default one when reading it failed
HangupDelay(ok, answeredAtMs, nowMs) ==
  IF ok THEN WaitMs(answeredAtMs, nowMs) ELSE DefaultHangupWaitMs

\* the time axis of a speak-ended handler, in milliseconds: the record's
\* answeredAt is AnsweredAtOrigin, the handler runs `elapsed` seconds later
AnsweredAtOrigin == 10000

\* lines 136-199: call.speak.ended reads the record and schedules the hangup:
\* after the computed wait, or after the default wait when the read fails
StatusScheduleHangup(h) ==
  /\ controller = "callControl"
  /\ handlers[h].pc = "getData"
  /\ handlers[h].event.type = "call.speak.ended"
  /\ timers[handlers[h].call] < MaxTimers
  /\ Schedule(handlers[h].call)
  /\ \E ok \in BOOLEAN, elapsed \in Elapsed :
       LET hr == handlers[h]
           answeredAtMs == IF GetCallData(calls, hr.call).answered
                           THEN AnsweredAtOrigin ELSE NullMs
           nowMs == AnsweredAtOrigin + (elapsed * MsPerSecond)
           set == [answeredAtMs |-> answeredAtMs, nowMs |-> nowMs,
                   waitMs |-> HangupDelay(ok, answeredAtMs, nowMs)]
       IN handlers' = [handlers EXCEPT ![h] =
            SendStatus200(Outcome(
              Issue([hr EXCEPT !.timer = set], "setTimeout"), ok))]
  /\ UNCHANGED <<calls, controller, callStates, provider, monitor>>
  /\ UNCHANGED dispatchVars

NextStatus ==
  \/ \E h \in OneSlot : StatusDeliver(h)
  \/ \E h \in OneSlot : StatusUpdateGet(h)
  \/ \E h \in OneSlot : StatusUpdateWrite(h)
  \/ \E h \in OneSlot : StatusGetScript(h)
  \/ \E h \in OneSlot : StatusSpeak(h)
  \/ \E h \in OneSlot : StatusScheduleHangup(h)
  \/ \E c \in DOMAIN timers : HangupTimerFires(c)

SpecStatus == InitWebhook("callControl") /\ [][NextStatus]_vars

-----------------------------------------------------------------------------
(* The consent-flow webhook controller: src/unnamed/part_000 *)

\* state objects created per call id (a call.hangup deletes the map entry, the
\* next event creates a new one)
MaxObjects == 2

\* invalid or timed-out gathers delivered per state object
MaxAttempts == 3

\* the attempt limit of lines 118 and 128
GatherAttemptLimit == 3

ConsentEvents ==
  {[BlankEvent EXCEPT !.type = t] :
     t \in {"call.answered", "call.hangup", "call.speak.ended",
            "call.machine.premium.greeting.ended", "call.bridged"}}
  \cup {[BlankEvent EXCEPT !.type = "call.initiated", !.direction = d] :
          d \in {"incoming", "outgoing"}}
  \cup {[BlankEvent EXCEPT !.type = "call.machine.premium.detection.ended",
                           !.result = r] : r \in {"human", "machine"}}
  \cup {[BlankEvent EXCEPT !.type = "call.gather.ended", !.status = "valid",
                           !.digits = d] : d \in {"1", "2", "9"}}
  \cup {[BlankEvent EXCEPT !.type = "call.gather.ended", !.status = "invalid"]}

\* line 22: the state of a call id not seen before
NewCallState ==
  [scriptPlayed |-> FALSE, amdResult |-> "null", gatherAttempts |-> 0,
   consentGiven |-> FALSE]

\* callStates.has(callControlId)
HasState(cs) == cs.live

\* callStates.get(callControlId): the index of the object in the map
LiveObject(cs) == Len(cs.objs)

\* lines 21-23: the entry is created when the map has none
EnsureState(cs) ==
  IF HasState(cs) THEN cs
  ELSE [cs EXCEPT !.objs = Append(@, NewCallState), !.live = TRUE]

\* line 50: callStates.delete(callControlId); the object itself stays with the
\* handlers that hold it
DeleteState(cs) == [cs EXCEPT !.live = FALSE]

\* a state object that neither the map nor a running handler refers to is
\* garbage: nothing can read it again
Referenced(cs, k, c, hs) ==
  \/ HasState(cs) /\ k = LiveObject(cs)
  \/ \E h \in Slots : Active(hs[h]) /\ hs[h].call = c /\ hs[h].obj = k

Collect(cs, c, hs) ==
  [cs EXCEPT !.objs = [k \in DOMAIN cs.objs |->
     IF Referenced(cs, k, c, hs) THEN cs.objs[k] ELSE NewCallState]]

\* the objects a returning handler was the last to hold are dropped
Release(hs) ==
  callStates' = [c \in DOMAIN timers |-> Collect(callStates[c], c, hs)]

\* the flag of the call id as the map has it
ScriptPlayedFlag(cs) == HasState(cs) /\ cs.objs[LiveObject(cs)].scriptPlayed

\* MarkScriptPlayed leaving the flag as it is
MarkScriptPlayedSkipped(cs, k) == cs

\* lines 80 and 104: callState.scriptPlayed = true, on the object the handler
\* holds; rises counts the times the map's flag went from false to true
MarkScriptPlayed(cs, k) ==
  [cs EXCEPT
     !.objs[k].scriptPlayed = TRUE,
     !.rises = IF HasState(cs) /\ k = LiveObject(cs) /\ ~cs.objs[k].scriptPlayed
               THEN @ + 1 ELSE @]

\* lines 74 and 99: if (!callState.scriptPlayed)
ScriptNotPlayed(cs, k) == ~cs.objs[k].scriptPlayed

\* line 139: return res.sendStatus(200)
ConsentSendStatus200(hr) == Returned(hr, 200)

\* the scenario "machine detected, then greeting ended twice, one handler
\* after the other": start -> amd -> greet1 -> greet2; any other event, an
\* event delivered while a handler of the call is running, or a failed store
\* read leaves it ("off"); a speak request with a fixed message sent within
\* the scenario is recorded ("prompt")
MonitorStep(m, e, overlap) ==
  IF overlap THEN "off"
  ELSE IF m = "start" /\ e.type = "call.machine.premium.detection.ended"
          /\ e.result = "machine" THEN "amd"
  ELSE IF m = "amd" /\ e.type = "call.machine.premium.greeting.ended" THEN "greet1"
  ELSE IF m = "greet1" /\ e.type = "call.machine.premium.greeting.ended" THEN "greet2"
  ELSE "off"

MonitorPrompt(m) == IF m = "off" THEN "off" ELSE "prompt"

HandlerRuns(c) == \E h \in Slots : Active(handlers[h]) /\ handlers[h].call = c

\* the attempt limit met one attempt late
UnderAttemptLimitInclusive(st) == st.gatherAttempts <= GatherAttemptLimit

\* lines 118 and 128: if (callState.gatherAttempts < 3), after the increment
UnderAttemptLimit(st) == st.gatherAttempts < GatherAttemptLimit

\* lines 25-134, up to the first await of the event's case
ConsentFirstStep(hr, e, st) ==
  CASE e.type = "call.initiated" /\ e.direction = "incoming" ->
         [hr EXCEPT !.pc = "transfer"]
    [] e.type = "call.speak.ended" /\ st.amdResult = "machine" /\ st.scriptPlayed ->
         [hr EXCEPT !.pc = "hangup"]
    [] e.type = "call.machine.premium.detection.ended" /\ e.result # "machine" ->
         [hr EXCEPT !.pc = "consentGather"]
    [] e.type = "call.machine.premium.greeting.ended" /\ ~st.scriptPlayed ->
         [hr EXCEPT !.pc = "getData", !.sawFalse = TRUE]
    [] e.type = "call.gather.ended" /\ e.status = "valid" /\ e.digits = "1" ->
         [hr EXCEPT !.pc = "logConsent"]
    [] e.type = "call.gather.ended" /\ e.status = "valid" /\ e.digits = "2" ->
         [hr EXCEPT !.pc = "speakGoodbye"]
    [] e.type = "call.gather.ended" /\ e.status = "valid"
         /\ e.digits \notin {"1", "2"} ->
         IF UnderAttemptLimit(st)
         THEN [hr EXCEPT !.pc = "speakPrompt"]
         ELSE [hr EXCEPT !.pc = "speakGoodbye"]
    [] e.type = "call.gather.ended" /\ e.status # "valid" ->
         IF UnderAttemptLimit(st)
         THEN [hr EXCEPT !.pc = "speakPrompt"]
         ELSE [hr EXCEPT !.pc = "hangup"]
    [] OTHER -> ConsentSendStatus200(hr)

\* lines 50, 61, 97, 117, 127: what the event's case writes to the call state
\* before its first await
ConsentFirstWrite(cs, e) ==
  LET k == LiveObject(cs) IN
  CASE e.type = "call.hangup" -> DeleteState(cs)
    [] e.type = "call.machine.premium.detection.ended" ->
         [cs EXCEPT !.objs[k].amdResult = e.result]
    [] e.type = "call.gather.ended" /\ e.status = "valid" /\ e.digits = "1" ->
         [cs EXCEPT !.objs[k].consentGiven = TRUE]
    [] e.type = "call.gather.ended"
         /\ ~(e.status = "valid" /\ e.digits \in {"1", "2"}) ->
         [cs EXCEPT !.objs[k].gatherAttempts = @ + 1]
    [] OTHER -> cs

\* lines 10-25: a request arrives and runs up to its first await
ConsentDeliver(h, events) ==
  /\ controller = "consentFlow"
  /\ ~Active(handlers[h])
  /\ \E c \in DOMAIN timers \cup {NoCallId}, e \in events :
       IF c = NoCallId
       THEN /\ handlers' = [handlers EXCEPT ![h] =
                 ConsentSendStatus200([FreeHandler EXCEPT !.event = e])]
            /\ UNCHANGED <<callStates, monitor>>
       ELSE /\ HasState(callStates[c]) \/ Len(callStates[c].objs) < MaxObjects
            /\ LET cs == EnsureState(callStates[c])
                   k == LiveObject(cs)
                   after == ConsentFirstWrite(cs, e)
                   hr == [FreeHandler EXCEPT !.call = c, !.event = e, !.obj = k]
               IN /\ e.type = "call.gather.ended"
                       /\ ~(e.status = "valid" /\ e.digits \in {"1", "2"})
                     => cs.objs[k].gatherAttempts < MaxAttempts
                  /\ handlers' = [handlers EXCEPT ![h] =
                       ConsentFirstStep(hr, e, after.objs[k])]
                  /\ callStates' = [callStates EXCEPT ![c] =
                       Collect(after, c, handlers')]
            /\ monitor' = [monitor EXCEPT ![c] = MonitorStep(@, e, HandlerRuns(c))]
  /\ UNCHANGED <<calls, controller, provider, timers>>
  /\ UNCHANGED dispatchVars

\* lines 30-43, 55, 68, 120, 130, 132: a request that only needs sending:
\* transfer, hangup, gather_using_speak, gather; its failure is caught and
\* logged where it is sent (lines 40-42, 196-198, 214-216, 227-229)
ConsentRequest(h) ==
  /\ controller = "consentFlow"
  /\ handlers[h].pc \in {"transfer", "hangup", "consentGather", "gather"}
  /\ \E ok \in BOOLEAN :
       handlers' = [handlers EXCEPT ![h] =
         ConsentSendStatus200(
           Sent(handlers[h],
                IF handlers[h].pc = "consentGather"
                THEN "gather_using_speak" ELSE handlers[h].pc, ok))]
  /\ provider' = IF handlers[h].pc = "gather"
                 THEN [provider EXCEPT ![handlers[h].call].gather = @ + 1]
                 ELSE provider
  /\ Release(handlers')
  /\ UNCHANGED <<calls, controller, timers, monitor>>
  /\ UNCHANGED dispatchVars

\* lines 98-99: after await logConsent(...), the flag is tested
ConsentLogConsent(h) ==
  /\ controller = "consentFlow"
  /\ handlers[h].pc = "logConsent"
  /\ LET hr == handlers[h] IN
       handlers' = [handlers EXCEPT ![h] =
         IF ScriptNotPlayed(callStates[hr.call], hr.obj)
         THEN [hr EXCEPT !.pc = "getData", !.sawFalse = TRUE]
         ELSE ConsentSendStatus200(hr)]
  /\ Release(handlers')
  /\ UNCHANGED <<calls, controller, provider, timers, monitor>>
  /\ UNCHANGED dispatchVars

\* lines 76-77, 81-86 and 101-102, 105-110: getCallData for the script; a
\* store error is caught and logged
ConsentGetScript(h) ==
  /\ controller = "consentFlow"
  /\ handlers[h].pc = "getData"
  /\ LET hr == handlers[h]
         callData == GetCallData(calls, hr.call)
     IN \E ok \in BOOLEAN :
          /\ handlers' = [handlers EXCEPT ![h] =
               IF ok /\ HasRecord(calls, hr.call) /\ callData.script # Undefined
               THEN [hr EXCEPT
                       !.pc = IF hr.event.type = "call.gather.ended"
                              THEN "speakScript" ELSE "delay",
                       !.script = callData.script]
               ELSE ConsentSendStatus200(Outcome(hr, ok))]
          /\ monitor' = IF ok THEN monitor
                        ELSE [monitor EXCEPT ![hr.call] = "off"]
  /\ Release(handlers')
  /\ UNCHANGED <<calls, controller, provider, timers>>
  /\ UNCHANGED dispatchVars

\* line 78: the 4 second wait before speaking to the voicemail
ConsentDelay(h) ==
  /\ controller = "consentFlow"
  /\ handlers[h].pc = "delay"
  /\ handlers' = [handlers EXCEPT ![h].pc = "speakScript"]
  /\ UNCHANGED <<calls, controller, callStates, provider, timers, monitor>>
  /\ UNCHANGED dispatchVars

\* lines 79-80 and 103-104: speakScript with the script (its failure is logged
\* inside speakScript), then the flag is set
ConsentSpeakScript(h) ==
  /\ controller = "consentFlow"
  /\ handlers[h].pc = "speakScript"
  /\ LET hr == handlers[h] IN
       /\ provider[hr.call].script < MaxSpeaks
       /\ provider' = [provider EXCEPT ![hr.call].script = @ + 1]
       /\ \E ok \in BOOLEAN :
            handlers' = [handlers EXCEPT ![h] =
              ConsentSendStatus200(
                Sent([hr EXCEPT !.spoke = TRUE], "speak:script", ok))]
       /\ callStates' = [callStates EXCEPT ![hr.call] =
            Collect(MarkScriptPlayed(@, hr.obj), hr.call, handlers')]
  /\ UNCHANGED <<calls, controller, timers, monitor>>
  /\ UNCHANGED dispatchVars

\* lines 119 and 129: 'Invalid input. Please press 1 ...' after a digit that
\* is neither 1 nor 2, 'We did not receive your input. ...' otherwise
RepromptOf(e) ==
  IF e.status = "valid" THEN "speak:invalidInput" ELSE "speak:noInput"

\* lines 114 and 122: 'Thank you. Goodbye.' after digit 2, 'Too many invalid
\* attempts. Goodbye.' at the attempt limit
GoodbyeOf(e) ==
  IF e.digits = "2" THEN "speak:thankYou" ELSE "speak:tooManyAttempts"

\* lines 119 and 129: the re-prompt is spoken, the gather follows
ConsentSpeakPrompt(h) ==
  /\ controller = "consentFlow"
  /\ handlers[h].pc = "speakPrompt"
  /\ LET hr == handlers[h] IN
       /\ monitor' = [monitor EXCEPT ![hr.call] = MonitorPrompt(@)]
       /\ \E ok \in BOOLEAN :
            handlers' = [handlers EXCEPT ![h] =
              Sent([hr EXCEPT !.pc = "gather"], RepromptOf(hr.event), ok)]
  /\ UNCHANGED <<calls, controller, callStates, provider, timers>>
  /\ UNCHANGED dispatchVars

\* lines 113-115 and 122-123: the goodbye is spoken and the hangup is
\* scheduled 2 seconds later
ConsentSpeakGoodbye(h) ==
  /\ controller = "consentFlow"
  /\ handlers[h].pc = "speakGoodbye"
  /\ LET hr == handlers[h] IN
       /\ timers[hr.call] < MaxTimers
       /\ monitor' = [monitor EXCEPT ![hr.call] = MonitorPrompt(@)]
       /\ Schedule(hr.call)
       /\ \E ok \in BOOLEAN :
            handlers' = [handlers EXCEPT ![h] =
              ConsentSendStatus200(
                Issue(Sent(hr, GoodbyeOf(hr.event), ok), "setTimeout"))]
       /\ Release(handlers')
  /\ UNCHANGED <<calls, controller, provider>>
  /\ UNCHANGED dispatchVars

\* webhook requests delivered one at a time, of every event type
NextConsent ==
  \/ \E h \in OneSlot : ConsentDeliver(h, ConsentEvents)
  \/ \E h \in OneSlot : ConsentRequest(h)
  \/ \E h \in OneSlot : ConsentLogConsent(h)
  \/ \E h \in OneSlot : ConsentGetScript(h)
  \/ \E h \in OneSlot : ConsentDelay(h)
  \/ \E h \in OneSlot : ConsentSpeakScript(h)
  \/ \E h \in OneSlot : ConsentSpeakPrompt(h)
  \/ \E h \in OneSlot : ConsentSpeakGoodbye(h)
  \/ \E c \in DOMAIN timers : HangupTimerFires(c)

SpecConsent == InitWebhook("consentFlow") /\ [][NextConsent]_vars

\* webhook requests of the events that lead to the script being spoken, and
\* of the hangup, running at the same time, suspended at their awaits
SpecConsentRace ==
  /\ InitWebhook("consentFlow")
  /\ [][\/ \E h \in Slots :
             ConsentDeliver(h,
               {e \in ConsentEvents :
                  \/ e.type \in {"call.machine.premium.greeting.ended",
                                  "call.hangup"}
                  \/ /\ e.type = "call.gather.ended"
                     /\ e.status = "valid" /\ e.digits = "1"})
        \/ \E h \in Slots : ConsentLogConsent(h)
        \/ \E h \in Slots : ConsentGetScript(h)
        \/ \E h \in Slots : ConsentDelay(h)
        \/ \E h \in Slots : ConsentSpeakScript(h)]_vars

\* either controller mounted, webhook requests delivered one at a time
SpecWebhook ==
  /\ \E ctl \in {"callControl", "consentFlow"} : InitWebhook(ctl)
  /\ [][NextStatus \/ NextConsent]_vars

-----------------------------------------------------------------------------
(* POST /api/cancel-all-calls: src/index.js lines 434-515 *)

\* the calls the store holds when a cancellation is requested
CancelCallIds == {<<"leg", 1>>, <<"leg", 2>>}

\* the broadcasts a record can belong to
BroadcastIds == {1, 2}

\* statuses after which a call record is final
TerminalStatuses ==
  {"completed", "no-answer", "busy", "canceled", "rejected", "failed"}

\* line 443: the statuses the broadcast branch selects
ActiveBroadcastStatuses == {"pending", "ringing", "initiated", "answered"}

\* src/firebaseService.js line 495: the statuses getActiveCalls selects
ActiveStatuses == {"pending", "ringing"}

\* the call ids in the order of a query snapshot: by document id
RECURSIVE IdsInOrder(_)
IdsInOrder(ids) ==
  IF ids = {} THEN <<>>
  ELSE LET first == CHOOSE x \in ids : \A y \in ids : x[2] <= y[2]
       IN <<first>> \o IdsInOrder(ids \ {first})

\* lines 442-444: broadcastCalls.filter(call => [...].includes(call.status))
ActiveBroadcastCalls(store, b) ==
  IdsInOrder({id \in DOMAIN store :
                /\ store[id].broadcastId = b
                /\ store[id].status \in ActiveBroadcastStatuses})

\* src/firebaseService.js lines 492-519: the pending and ringing documents
GetActiveCalls(store) ==
  IdsInOrder({id \in DOMAIN store : store[id].status \in ActiveStatuses})

\* src/firebaseService.js lines 423-441: docRef.update on the session; a
\* missing document makes it throw
UpdateBroadcastSession(store, id, status) ==
  IF id \in DOMAIN store
  THEN (id :> [store[id] EXCEPT !.status = status]) @@ store
  ELSE store

\* lines 500-504 and 507-513: the response of the request
CancelRespond(cr, status, success) ==
  [cr EXCEPT !.pc = "done",
     !.resp = Append(@, [status |-> status, success |-> success,
                         canceledCount |-> cr.canceledCount])]

\* the call the loop is at
CancelCurrent(cr) == cr.list[cr.index + 1]

\* lines 447, 479: the loop goes to its next call; behind the last one the
\* broadcast branch updates the session and the other branch responds
CancelAdvance(cr) ==
  LET next == [cr EXCEPT !.index = @ + 1, !.inCatch = FALSE] IN
  IF next.index < Len(next.list) THEN [next EXCEPT !.pc = "hangup"]
  ELSE IF next.broadcastId # Undefined THEN [next EXCEPT !.pc = "session"]
  ELSE CancelRespond(next, 200, TRUE)

\* lines 456-465 and 488-497: updateCallStatus has thrown.  The broadcast
\* branch's catch does nothing; the other branch's catch calls
\* updateCallStatus once more, and only logs when that call throws too
CancelUpdateFailed(cr) ==
  IF cr.broadcastId = Undefined /\ ~cr.inCatch
  THEN [cr EXCEPT !.pc = "updateGet", !.inCatch = TRUE]
  ELSE CancelAdvance([cr EXCEPT !.writeFailed = @ \cup {CancelCurrent(cr)}])

\* lines 434-439: the request arrives, with or without a broadcastId
CancelRequest ==
  /\ cancel.pc = "idle"
  /\ \E b \in BroadcastIds \cup {Undefined} :
       cancel' = [cancel EXCEPT !.pc = "read", !.broadcastId = b,
                                !.started = calls]
  /\ UNCHANGED <<calls, broadcasts, dispatch, createCount, response, storeOp>>
  /\ UNCHANGED <<controller, handlers, callStates, provider, timers, monitor>>

\* lines 441-444 and 477: the calls to cancel are read; getActiveCalls
\* answers a quota error with an empty list; any other read error ends the
\* request with 500 (lines 506-513)
CancelRead ==
  /\ cancel.pc = "read"
  /\ \E outcome \in {"ok", "quota", "error"} :
       LET list == IF cancel.broadcastId # Undefined
                   THEN ActiveBroadcastCalls(calls, cancel.broadcastId)
                   ELSE IF outcome = "ok" THEN GetActiveCalls(calls)
                   ELSE <<>>
           thrown == \/ outcome = "error"
                     \/ outcome = "quota" /\ cancel.broadcastId # Undefined
           cr == [cancel EXCEPT !.list = list]
       IN cancel' =
            IF thrown THEN CancelRespond(cancel, 500, FALSE)
            ELSE IF Len(list) > 0 THEN [cr EXCEPT !.pc = "hangup"]
            ELSE IF cancel.broadcastId # Undefined THEN [cr EXCEPT !.pc = "session"]
            ELSE CancelRespond(cr, 200, TRUE)
  /\ UNCHANGED <<calls, broadcasts, dispatch, createCount, response, storeOp>>
  /\ UNCHANGED <<controller, handlers, callStates, provider, timers, monitor>>

\* lines 450 and 482: telnyx.calls.hangup; when it throws, the broadcast
\* branch's catch (lines 456-465) leaves the call as it is, the other
\* branch's catch (lines 488-497) goes on to update the record
CancelHangup ==
  /\ cancel.pc = "hangup"
  /\ \E ok \in BOOLEAN :
       cancel' =
         IF ok THEN [cancel EXCEPT !.pc = "updateGet"]
         ELSE LET cr == [cancel EXCEPT
                           !.hangupFailed = @ \cup {CancelCurrent(cancel)}]
              IN IF cancel.broadcastId # Undefined
                 THEN CancelAdvance(cr)
                 ELSE [cr EXCEPT !.pc = "updateGet", !.inCatch = TRUE]
  /\ UNCHANGED <<calls, broadcasts, dispatch, createCount, response, storeOp>>
  /\ UNCHANGED <<controller, handlers, callStates, provider, timers, monitor>>

\* lines 453, 485, 492 and src/firebaseService.js line 311: updateCallStatus
\* reads the document
CancelUpdateGet ==
  /\ cancel.pc = "updateGet"
  /\ \E ok \in BOOLEAN :
       cancel' =
         IF ok THEN [cancel EXCEPT
                       !.pc = "updateWrite",
                       !.exists = HasRecord(calls, CancelCurrent(cancel))]
         ELSE CancelUpdateFailed(cancel)
  /\ UNCHANGED <<calls, broadcasts, dispatch, createCount, response, storeOp>>
  /\ UNCHANGED <<controller, handlers, callStates, provider, timers, monitor>>

\* src/firebaseService.js lines 313-331 and lines 454, 486, 493:
\* updateCallStatus writes 'canceled', then canceledCount++
CancelUpdateWrite ==
  /\ cancel.pc = "updateWrite"
  /\ \E ok \in BOOLEAN :
       LET id == CancelCurrent(cancel) IN
       IF ok
       THEN /\ calls' = UpdateCallStatus(calls, id, cancel.exists,
                                         "canceled", NoExtra)
            /\ cancel' = CancelAdvance([cancel EXCEPT
                           !.canceledCount = @ + 1,
                           !.counted = @ \cup {id}])
       ELSE /\ calls' = calls
            /\ cancel' = CancelUpdateFailed(cancel)
  /\ UNCHANGED <<broadcasts, dispatch, createCount, response, storeOp>>
  /\ UNCHANGED <<controller, handlers, callStates, provider, timers, monitor>>

\* lines 468-473 and 500-504: the session is marked canceled (an error is
\* logged only), then the response is sent
CancelSession ==
  /\ cancel.pc = "session"
  /\ \E ok \in BOOLEAN :
       broadcasts' = IF ok
                     THEN UpdateBroadcastSession(broadcasts,
                            <<"broadcast", cancel.broadcastId>>, "canceled")
                     ELSE broadcasts
  /\ cancel' = CancelRespond(cancel, 200, TRUE)
  /\ UNCHANGED <<calls, dispatch, createCount, response, storeOp>>
  /\ UNCHANGED <<controller, handlers, callStates, provider, timers, monitor>>

\* the records a cancellation can find: of either broadcast, in any status
CancelRecords ==
  {[BlankRecord EXCEPT !.status = st, !.broadcastId = b, !.phoneNumber = 1,
                       !.script = 1] :
     st \in Statuses, b \in BroadcastIds}

InitCancel ==
  /\ calls \in [CancelCallIds -> CancelRecords]
  /\ broadcasts \in
       {<<>>, StoreBroadcastSession(<<>>, BroadcastIdOf,
                [totalCalls |-> Cardinality(CancelCallIds), status |-> "active"])}
  /\ dispatch = IdleDispatch
  /\ createCount = 0
  /\ response = <<>>
  /\ controller = "none"
  /\ handlers = <<>>
  /\ callStates = <<>>
  /\ provider = <<>>
  /\ timers = <<>>
  /\ monitor = <<>>
  /\ cancel = IdleCancel
  /\ storeOp = NoStoreOp

NextCancel ==
  \/ CancelRequest
  \/ CancelRead
  \/ CancelHangup
  \/ CancelUpdateGet
  \/ CancelUpdateWrite
  \/ CancelSession

\* one cancellation request, nothing else running
SpecCancel == InitCancel /\ [][NextCancel]_vars

\* the webhook events that end a call while it is being canceled
CancelRaceEvents ==
  {[BlankEvent EXCEPT !.type = "call.speak.ended"]}
  \cup {[BlankEvent EXCEPT !.type = "call.hangup", !.cause = hc, !.duration = d] :
          hc \in {"NORMAL_CLEARING", "BUSY"}, d \in {0, 8}}

\* a call of the broadcast to cancel, which webhooks arrive for, and a call
\* of another broadcast
CancelRaceStore ==
  [id \in CancelCallIds |->
     [BlankRecord EXCEPT !.status = "pending", !.broadcastId = id[2],
                         !.phoneNumber = id[2], !.script = 1]]

\* one cancellation request while status webhooks of a call are handled
SpecCancelRace ==
  /\ InitWebhookOn("callControl", {CancelRaceStore})
  /\ [][\/ NextCancel
        \/ \E h \in OneSlot : StatusDeliverOf(h, CancelRaceEvents)
        \/ \E h \in OneSlot : StatusUpdateGet(h)
        \/ \E h \in OneSlot : StatusUpdateWrite(h)
        \/ \E h \in OneSlot : StatusScheduleHangup(h)
        \/ \E c \in DOMAIN timers : HangupTimerFires(c)]_vars

\* webhook requests of the consent flow for calls whose records are final:
\* canceled by a cancellation request, or completed
SpecConsentLate ==
  /\ InitWebhookOn("consentFlow",
       [CallIds -> {[BlankRecord EXCEPT !.status = st, !.broadcastId = 1,
                                        !.phoneNumber = 1, !.script = 1] :
                      st \in {"canceled", "completed"}}])
  /\ [][NextConsent]_vars

-----------------------------------------------------------------------------
(* updateCallStatus of the store implementations *)

\* the first FirebaseService (src/firebaseService.js lines 30-232), the second
\* one (lines 274-520), memoryService and MongoDBService (src/memoryStorage.js)
StoreImplementations ==
  {"firebaseUpdate", "firebaseUpsert", "memoryService", "mongoDBService"}

\* the result of an updateCallStatus call: it returned true or threw
StoreResult(ok, store) == [ok |-> ok, store |-> store]

\* src/firebaseService.js lines 49-63: docRef.update(...), which rejects
\* when the document does not exist; the error is thrown on
FirebaseUpdateCallStatus(store, id, status, extra) ==
  IF id \in DOMAIN store
  THEN StoreResult(TRUE, (id :> MergeStatus(store[id], status, extra)) @@ store)
  ELSE StoreResult(FALSE, store)

\* src/firebaseService.js lines 297-336: get, then update or set
FirebaseUpsertCallStatus(store, id, status, extra) ==
  StoreResult(TRUE, UpdateCallStatus(store, id, HasRecord(store, id),
                                     status, extra))

\* src/memoryStorage.js lines 18-29: the entry is merged, or created
MemoryUpdateCallStatus(store, id, status, extra) ==
  IF id \in DOMAIN store
  THEN StoreResult(TRUE, (id :> MergeStatus(store[id], status, extra)) @@ store)
  ELSE StoreResult(TRUE, (id :> MergeStatus(BlankRecord, status, extra)) @@ store)

\* src/memoryStorage.js lines 150-177: updateOne({_id}, {$set}, {upsert: true})
MongoUpdateCallStatus(store, id, status, extra) ==
  StoreResult(TRUE,
    (id :> MergeStatus(GetCallData(store, id), status, extra)) @@ store)

UpdateCallStatusOf(impl, store, id, status, extra) ==
  CASE impl = "firebaseUpdate" -> FirebaseUpdateCallStatus(store, id, status, extra)
    [] impl = "firebaseUpsert" -> FirebaseUpsertCallStatus(store, id, status, extra)
    [] impl = "memoryService" -> MemoryUpdateCallStatus(store, id, status, extra)
    [] impl = "mongoDBService" -> MongoUpdateCallStatus(store, id, status, extra)

\* the status updates the webhook controller makes: initiated, ringing,
\* answered (with answeredAt), and the others without extra fields
StoreUpdates ==
  {[status |-> st,
    extra |-> IF st = "answered" THEN [NoExtra EXCEPT !.answeredAt = TRUE]
              ELSE NoExtra] : st \in Statuses}

\* one updateCallStatus call on one of the implementations
StoreUpdateCallStatus ==
  /\ \E impl \in StoreImplementations, id \in CallIds, u \in StoreUpdates :
       LET r == UpdateCallStatusOf(impl, calls, id, u.status, u.extra) IN
       /\ calls' = r.store
       /\ storeOp' = [store |-> impl, id |-> id, status |-> u.status,
                      found |-> HasRecord(calls, id), ok |-> r.ok]
  /\ UNCHANGED <<broadcasts, dispatch, createCount, response, cancel>>
  /\ UNCHANGED <<controller, handlers, callStates, provider, timers, monitor>>

SpecStore ==
  /\ calls \in InitialStores
  /\ broadcasts = <<>>
  /\ dispatch = IdleDispatch
  /\ createCount = 0
  /\ response = <<>>
  /\ controller = "none"
  /\ handlers = <<>>
  /\ callStates = <<>>
  /\ provider = <<>>
  /\ timers = <<>>
  /\ monitor = <<>>
  /\ cancel = IdleCancel
  /\ storeOp = NoStoreOp
  /\ [][StoreUpdateCallStatus]_vars

-----------------------------------------------------------------------------
(* getCallCounts of the store implementations: src/firebaseService.js lines
   356-400, src/memoryStorage.js lines 37-52 and 200-260 *)

\* the counts by status of a set of call ids
CountsOf(store, ids) ==
  LET n(S) == Cardinality({id \in ids : store[id].status \in S}) IN
  [total |-> Cardinality(ids),
   pending |-> n({"pending"}),
   completed |-> n({"completed"}),
   totalCompleted |-> n({"completed", "answered", "voicemail", "busy"}),
   totalFailed |-> n({"failed", "no-answer", "canceled"}),
   totalPending |-> n({"pending", "ringing"})]

\* src/firebaseService.js lines 358-364: the 'calls' collection, narrowed by
\* where('broadcastId', '==', broadcastId) when the argument is given; the
\* sessions are in another collection.  src/memoryStorage.js lines 203-220
\* (MongoDBService) does the same with a $match on the broadcastId
FirebaseGetCallCounts(store, sessions, broadcastId) ==
  CountsOf(store,
    {id \in DOMAIN store :
       broadcastId # Undefined => store[id].broadcastId = broadcastId})

\* src/memoryStorage.js lines 38-51: every value of callStorage without a
\* truthy totalCalls: the map holds the sessions too (line 32); the argument
\* is not read.  A session with a truthy totalCalls adds nothing to the
\* counts.  The result has no totalPending
MemoryGetCallCounts(store, sessions, broadcastId) ==
  LET counted == {s \in DOMAIN sessions : sessions[s].totalCalls = 0}
      n(S) == Cardinality({id \in DOMAIN store : store[id].status \in S})
  IN [total |-> Cardinality(DOMAIN store) + Cardinality(counted),
      pending |-> n({"pending"}),
      completed |-> n({"completed", "answered", "voicemail"}),
      failed |-> n({"failed", "no-answer", "busy", "canceled"}),
      ringing |-> n({"ringing"}),
      totalCompleted |-> n({"completed", "answered", "voicemail"}),
      totalFailed |-> n({"failed", "no-answer", "busy", "canceled"})]

GetCallCountsOf(impl, store, sessions, broadcastId) ==
  CASE impl = "firebaseService" -> FirebaseGetCallCounts(store, sessions, broadcastId)
    [] impl = "memoryService" -> MemoryGetCallCounts(store, sessions, broadcastId)
    [] impl = "mongoDBService" -> FirebaseGetCallCounts(store, sessions, broadcastId)

\* one getCallCounts call on one of the implementations, with or without the
\* argument
StoreGetCallCounts ==
  /\ \E impl \in {"firebaseService", "memoryService", "mongoDBService"},
        b \in BroadcastIds \cup {Undefined} :
       storeOp' = [store |-> impl, broadcastId |-> b,
                   counts |-> GetCallCountsOf(impl, calls, broadcasts, b)]
  /\ UNCHANGED <<calls, broadcasts, dispatch, createCount, response, cancel>>
  /\ UNCHANGED <<controller, handlers, callStates, provider, timers, monitor>>

\* the call records a count can meet: of either broadcast, or written by an
\* upsert without a broadcastId; with or without a stored session
InitCounts ==
  /\ calls \in UNION {[ids -> {[BlankRecord EXCEPT !.status = st,
                                                    !.broadcastId = b] :
                                   st \in Statuses,
                                   b \in BroadcastIds \cup {Undefined}}] :
                      ids \in SUBSET CancelCallIds}
  /\ broadcasts \in
       {<<>>, StoreBroadcastSession(<<>>, BroadcastIdOf,
                [totalCalls |-> Cardinality(CancelCallIds), status |-> "active"])}
  /\ dispatch = IdleDispatch
  /\ createCount = 0
  /\ response = <<>>
  /\ controller = "none"
  /\ handlers = <<>>
  /\ callStates = <<>>
  /\ provider = <<>>
  /\ timers = <<>>
  /\ monitor = <<>>
  /\ cancel = IdleCancel
  /\ storeOp = NoStoreOp

SpecCounts == InitCounts /\ [][StoreGetCallCounts]_vars

-----------------------------------------------------------------------------
(* POST /api/make-call, the older dispatcher that places one call per
   number: src/firebaseService.js lines 544-647 *)

\* lines 575-578, 598-608 and 619-627: the record of phone i, pending or
\* failed: contactIds[i]?.trim() || `contact_${i}` (the default is -(i + 1)
\* here), the name alike, and contents[i] || contents[0]
OldDispatchRecord(d, i, status) ==
  LET default == -(i + 1) IN
  [BlankRecord EXCEPT
     !.status = status,
     !.broadcastId = 1,
     !.contactId = IF At(d.contactIds, i) # Undefined
                   THEN At(d.contactIds, i) ELSE default,
     !.contactName = IF At(d.contactNames, i) # Undefined
                     THEN At(d.contactNames, i) ELSE default,
     !.phoneNumber = At(d.phoneNumbers, i),
     !.script = IF At(d.contents, i) # Undefined
                THEN At(d.contents, i) ELSE At(d.contents, 0)]

\* line 580: if (!phone) continue; the first index from i on with a phone
RECURSIVE NextPhone(_, _)
NextPhone(phoneNumbers, i) ==
  IF i >= Len(phoneNumbers) THEN Len(phoneNumbers)
  ELSE IF IsNonBlank(At(phoneNumbers, i)) THEN i
  ELSE NextPhone(phoneNumbers, i + 1)

\* lines 574-638: the loop goes on with the next phone, or the response is
\* sent after the last one
OldAdvance(d, i) ==
  LET j == NextPhone(d.phoneNumbers, i) IN
  IF j = Len(d.phoneNumbers)
  THEN /\ Respond(201, TRUE, d.sids, 0)
       /\ dispatch' = [d EXCEPT !.pc = "done", !.index = j]
  ELSE /\ dispatch' = [d EXCEPT !.pc = "create", !.index = j]
       /\ UNCHANGED response

\* lines 640-647: the outer catch answers 500
OldCatch(d) ==
  /\ Respond(500, FALSE, <<>>, 0)
  /\ dispatch' = [d EXCEPT !.pc = "done", !.storeErrors = @ + 1]

\* lines 546-560: the body is tested and split; the pieces are not filtered
OldDispatchRequest ==
  /\ dispatch.pc = "idle"
  /\ \E body \in Bodies :
       IF Len(body.phonenumber) = 0 \/ ~body.hasContent
       THEN /\ Respond(400, FALSE, <<>>, 0)
            /\ dispatch' = [dispatch EXCEPT !.pc = "done", !.path = "invalid"]
       ELSE /\ dispatch' = [dispatch EXCEPT
                 !.pc = "session",
                 !.phoneNumbers = PhonePieces(body),
                 !.contactIds = ParseContacts(body),
                 !.contactNames = ParseNames(body),
                 !.contents = ParseContents(body),
                 !.path = "old"]
            /\ UNCHANGED response
  /\ UNCHANGED <<calls, broadcasts, createCount>>
  /\ UNCHANGED webhookVars

\* lines 567-572: await storeBroadcastSession, in no try of its own
OldStoreSession ==
  /\ dispatch.pc = "session"
  /\ dispatch.path = "old"
  /\ \E ok \in BOOLEAN :
       IF ok
       THEN /\ broadcasts' = StoreBroadcastSession(broadcasts, BroadcastIdOf,
                               [totalCalls |-> Len(dispatch.phoneNumbers),
                                status |-> "active"])
            /\ OldAdvance(dispatch, 0)
       ELSE /\ UNCHANGED broadcasts
            /\ OldCatch(dispatch)
  /\ UNCHANGED <<calls, createCount>>
  /\ UNCHANGED webhookVars

\* lines 582-595: telnyx.calls.create for one phone; the id is pushed to
\* callSids before the record is stored
OldCreateCall ==
  /\ dispatch.pc = "create"
  /\ dispatch.path = "old"
  /\ createCount' = createCount + 1
  /\ \E created \in BOOLEAN :
       dispatch' =
         IF created
         THEN [dispatch EXCEPT
                 !.pc = "storeLeg",
                 !.sids = Append(@, <<"leg", dispatch.index + 1>>)]
         ELSE [dispatch EXCEPT !.pc = "storeFailed"]
  /\ UNCHANGED <<calls, broadcasts, response>>
  /\ UNCHANGED webhookVars

\* lines 597-608 and 616: storeCallData of the created call; its error goes
\* to the catch of the phone
OldStoreLeg ==
  /\ dispatch.pc = "storeLeg"
  /\ dispatch.path = "old"
  /\ \E ok \in BOOLEAN :
       IF ok
       THEN /\ calls' = StoreCallData(calls, <<"leg", dispatch.index + 1>>,
                          OldDispatchRecord(dispatch, dispatch.index, "pending"))
            /\ OldAdvance(dispatch, dispatch.index + 1)
       ELSE /\ UNCHANGED <<calls, response>>
            /\ dispatch' = [dispatch EXCEPT
                 !.pc = "storeFailed", !.storeErrors = @ + 1]
  /\ UNCHANGED <<broadcasts, createCount>>
  /\ UNCHANGED webhookVars

\* lines 616-628: the catch of the phone stores a failed record, in no try of
\* its own
OldStoreFailed ==
  /\ dispatch.pc = "storeFailed"
  /\ dispatch.path = "old"
  /\ \E ok \in BOOLEAN :
       IF ok
       THEN /\ calls' = StoreCallData(calls, <<"failed", dispatch.index>>,
                          OldDispatchRecord(dispatch, dispatch.index, "failed"))
            /\ OldAdvance(dispatch, dispatch.index + 1)
       ELSE /\ UNCHANGED calls
            /\ OldCatch(dispatch)
  /\ UNCHANGED <<broadcasts, createCount>>
  /\ UNCHANGED webhookVars

SpecDispatchOld ==
  /\ InitDispatch
  /\ [][\/ OldDispatchRequest
        \/ OldStoreSession
        \/ OldCreateCall
        \/ OldStoreLeg
        \/ OldStoreFailed]_vars

-----------------------------------------------------------------------------
(* Webhook requests of two call ids running at the same time *)

\* two calls of one broadcast with their pending records, either controller
\* mounted; two requests in flight, each for either call, suspended at their
\* awaits
SpecIsolation ==
  /\ calls = [c \in CancelCallIds |->
                [BlankRecord EXCEPT !.status = "pending", !.broadcastId = 1,
                                    !.phoneNumber = c[2], !.script = c[2]]]
  /\ broadcasts = <<>>
  /\ dispatch = IdleDispatch
  /\ createCount = 0
  /\ response = <<>>
  /\ controller \in {"callControl", "consentFlow"}
  /\ handlers = [h \in Slots |-> FreeHandler]
  /\ callStates = [c \in CancelCallIds |->
                     [objs |-> <<>>, live |-> FALSE, rises |-> 0]]
  /\ provider = [c \in CancelCallIds |-> NoSpeaks]
  /\ timers = [c \in CancelCallIds |-> 0]
  /\ monitor = [c \in CancelCallIds |-> "start"]
  /\ cancel = IdleCancel
  /\ storeOp = NoStoreOp
  /\ [][\/ \E h \in Slots :
             StatusDeliverOf(h, {e \in StatusEvents : e.type = "call.answered"})
        \/ \E h \in Slots : StatusUpdateGet(h)
        \/ \E h \in Slots : StatusUpdateWrite(h)
        \/ \E h \in Slots : StatusGetScript(h)
        \/ \E h \in Slots : StatusSpeak(h)
        \/ \E h \in Slots :
             ConsentDeliver(h, {e \in ConsentEvents :
               e.type = "call.gather.ended" /\ e.digits \in {"1", "2"}})
        \/ \E h \in Slots : ConsentLogConsent(h)
        \/ \E h \in Slots : ConsentGetScript(h)
        \/ \E h \in Slots : ConsentSpeakScript(h)
        \/ \E h \in Slots : ConsentSpeakGoodbye(h)
        \/ \E c \in DOMAIN timers : HangupTimerFires(c)]_vars

-----------------------------------------------------------------------------
(* A webhook's updateCallStatus and the dispatcher's storeCallData for one
   call id: src/index.js lines 93-132 *)

\* src/firebaseService.js lines 276-295 (docRef.set), src/memoryStorage.js
\* lines 6-11 (callStorage.set) and 120-146 (replaceOne): storeCallData puts
\* the dispatcher's pending record in the place of whatever the id holds
DispatcherStoreCallData ==
  /\ \E id \in CallIds :
       /\ calls' = StoreCallData(calls, id,
            [BlankRecord EXCEPT !.status = "pending", !.broadcastId = 1,
                                !.phoneNumber = 1, !.script = 1])
       /\ storeOp' = [store |-> "storeCallData", id |-> id,
                      status |-> "pending", found |-> HasRecord(calls, id),
                      ok |-> TRUE]
  /\ UNCHANGED <<broadcasts, dispatch, createCount, response, cancel>>
  /\ UNCHANGED <<controller, handlers, callStates, provider, timers, monitor>>

\* the provider has created the call and the store has no record of it yet:
\* the webhooks' status updates and the dispatcher's write come in any order
SpecStoreOrder ==
  /\ calls = <<>>
  /\ broadcasts = <<>>
  /\ dispatch = IdleDispatch
  /\ createCount = 0
  /\ response = <<>>
  /\ controller = "none"
  /\ handlers = <<>>
  /\ callStates = <<>>
  /\ provider = <<>>
  /\ timers = <<>>
  /\ monitor = <<>>
  /\ cancel = IdleCancel
  /\ storeOp = NoStoreOp
  /\ [][StoreUpdateCallStatus \/ DispatcherStoreCallData]_vars

\* src/firebaseService.js lines 297-336 with src/index.js lines 93-132: the
\* call-control handler's updateCallStatus reads the document and writes it in
\* two store requests, and the dispatcher's storeCallData for the same call
\* id may come before, between or after them
SpecUpdateOrder ==
  /\ InitWebhookOn("callControl", {<<>>})
  /\ [][\/ \E h \in Slots :
             StatusDeliverOf(h, {e \in StatusEvents :
                                   e.type \in {"call.initiated", "call.ringing"}})
        \/ \E h \in Slots : StatusUpdateGet(h)
        \/ \E h \in Slots : StatusUpdateWrite(h)
        \/ DispatcherStoreCallData]_vars

-----------------------------------------------------------------------------
(* Two invocations of the dispatch endpoint: src/index.js lines 41-148 *)

MaxClockMs == 2

\* Date.now() moves on between any two steps, or does not
DateNowAdvances ==
  /\ createCount < MaxClockMs
  /\ createCount' = createCount + 1
  /\ UNCHANGED <<calls, broadcasts, dispatch, response, cancel, storeOp>>
  /\ UNCHANGED <<controller, handlers, callStates, provider, timers, monitor>>

\* src/index.js line 67: const broadcastId = `broadcast_${Date.now()}`
GenerateBroadcastId(i) ==
  /\ dispatch[i].pc = "idle"
  /\ \E n \in 1..MaxPhones :
       dispatch' = [dispatch EXCEPT ![i] =
          [pc |-> "session", broadcastId |-> createCount, totalCalls |-> n]]
  /\ UNCHANGED <<calls, broadcasts, createCount, response, cancel, storeOp>>
  /\ UNCHANGED <<controller, handlers, callStates, provider, timers, monitor>>

\* src/index.js lines 69-79: the session is stored under the id; a store
\* error is logged only
StoreSessionOf(i) ==
  /\ dispatch[i].pc = "session"
  /\ \E ok \in BOOLEAN :
       broadcasts' = IF ok
                     THEN StoreBroadcastSession(broadcasts,
                            <<"broadcast", dispatch[i].broadcastId>>,
                            [totalCalls |-> dispatch[i].totalCalls,
                             status |-> "active"])
                     ELSE broadcasts
  /\ dispatch' = [dispatch EXCEPT ![i].pc = "create"]
  /\ UNCHANGED <<calls, createCount, response, cancel, storeOp>>
  /\ UNCHANGED <<controller, handlers, callStates, provider, timers, monitor>>

\* src/index.js lines 93-132: the provider's call legs (the invocation's own
\* call ids) are stored with the broadcastId
StoreLegsOf(i) ==
  /\ dispatch[i].pc = "create"
  /\ calls' = StoreCallData(calls, <<"leg", i>>,
        [BlankRecord EXCEPT !.status = "pending",
                            !.broadcastId = dispatch[i].broadcastId,
                            !.phoneNumber = i, !.script = i])
  /\ dispatch' = [dispatch EXCEPT ![i].pc = "done"]
  /\ UNCHANGED <<broadcasts, createCount, response, cancel, storeOp>>
  /\ UNCHANGED <<controller, handlers, callStates, provider, timers, monitor>>

SpecDispatchPair ==
  /\ calls = <<>>
  /\ broadcasts = <<>>
  /\ dispatch = [i \in {1, 2} |->
                   [pc |-> "idle", broadcastId |-> Undefined, totalCalls |-> 0]]
  /\ createCount = 1
  /\ response = <<>>
  /\ controller = "none"
  /\ handlers = <<>>
  /\ callStates = <<>>
  /\ provider = <<>>
  /\ timers = <<>>
  /\ monitor = <<>>
  /\ cancel = IdleCancel
  /\ storeOp = NoStoreOp
  /\ [][\/ DateNowAdvances
        \/ \E i \in DOMAIN dispatch : GenerateBroadcastId(i)
        \/ \E i \in DOMAIN dispatch : StoreSessionOf(i)
        \/ \E i \in DOMAIN dispatch : StoreLegsOf(i)]_vars

-----------------------------------------------------------------------------
(* Destination call creations outstanding at the provider for one batch:
   src/index.js lines 81-93 and 163-171 *)

MaxBatch == 9

\* src/index.js lines 82-93 and 164-171: telnyx.calls.create with
\* to: phoneNumbers, the whole batch in one request, first and on the retry
SubmitCreate ==
  /\ dispatch.pc \in {"idle", "retry"}
  /\ provider' = [outstanding |-> dispatch.total]
  /\ dispatch' = [dispatch EXCEPT
       !.pc = IF dispatch.pc = "idle" THEN "create" ELSE "retryCreate"]
  /\ UNCHANGED <<calls, broadcasts, createCount, response, cancel, storeOp>>
  /\ UNCHANGED <<controller, handlers, callStates, timers, monitor>>

\* the provider has created the call leg of one of the request's destinations
ProviderCreatesLeg ==
  /\ provider.outstanding > 0
  /\ provider' = [outstanding |-> provider.outstanding - 1]
  /\ UNCHANGED <<calls, broadcasts, dispatch, createCount, response, cancel,
                 storeOp>>
  /\ UNCHANGED <<controller, handlers, callStates, timers, monitor>>

\* src/index.js lines 93-94 and 150-161, 172-173 and 218: the create request
\* returns its legs, or fails; a failure of the first request is retried once
ProviderResponds ==
  /\ dispatch.pc \in {"create", "retryCreate"}
  /\ \/ /\ provider.outstanding = 0
        /\ dispatch' = [dispatch EXCEPT !.pc = "done"]
        /\ UNCHANGED provider
     \/ /\ provider' = [outstanding |-> 0]
        /\ dispatch' = [dispatch EXCEPT
             !.pc = IF dispatch.pc = "create" THEN "retry" ELSE "done"]
  /\ UNCHANGED <<calls, broadcasts, createCount, response, cancel, storeOp>>
  /\ UNCHANGED <<controller, handlers, callStates, timers, monitor>>

SpecBatchWindow ==
  /\ calls = <<>>
  /\ broadcasts = <<>>
  /\ dispatch \in {[pc |-> "idle", total |-> n] : n \in 1..MaxBatch}
  /\ createCount = 0
  /\ response = <<>>
  /\ controller = "none"
  /\ handlers = <<>>
  /\ callStates = <<>>
  /\ provider = [outstanding |-> 0]
  /\ timers = <<>>
  /\ monitor = <<>>
  /\ cancel = IdleCancel
  /\ storeOp = NoStoreOp
  /\ [][SubmitCreate \/ ProviderCreatesLeg \/ ProviderResponds]_vars

-----------------------------------------------------------------------------
(* GET /api/channel-status and its cache: src/index.js lines 365-431 *)

\* src/index.js line 369: ttl: 10000
CacheTtl == 10000

MaxTicks == 4

\* Date.now() moves on by half a ttl between two steps, or does not
ChannelClockAdvances ==
  /\ createCount < MaxTicks * (CacheTtl \div 2)
  /\ createCount' = createCount + (CacheTtl \div 2)
  /\ UNCHANGED <<calls, broadcasts, dispatch, response, cancel, storeOp>>
  /\ UNCHANGED <<controller, handlers, callStates, provider, timers, monitor>>

\* src/index.js lines 374-384: the request reads the clock; fresh cached data
\* is the response, otherwise getActiveCalls is called
ChannelStatusRequest(h) ==
  /\ handlers[h].pc \in {"free", "done"}
  /\ LET now == createCount IN
     handlers' = [handlers EXCEPT ![h] =
        IF storeOp.data # <<>> /\ (now - storeOp.lastUpdated) < CacheTtl
        THEN [pc |-> "done", now |-> now, served |-> "cache", code |-> 200,
              data |-> storeOp.data]
        ELSE [pc |-> "fetch", now |-> now, served |-> "none", code |-> 0,
              data |-> <<>>]]
  /\ UNCHANGED <<calls, broadcasts, dispatch, createCount, response, cancel,
                 storeOp>>
  /\ UNCHANGED <<controller, callStates, provider, timers, monitor>>

\* src/index.js lines 384-430 with getActiveCalls of src/firebaseService.js
\* lines 210-229 (every error is thrown) or lines 492-519 (a quota error gives
\* the empty list): the response data is built from the list and cached with
\* the request's clock reading; in the catch a quota error gives the cached
\* data of any age, every other error the status 500
ChannelStatusFetch(h) ==
  /\ handlers[h].pc = "fetch"
  /\ LET hr == handlers[h]
         fresh(list, fromStore) ==
           [totalActiveCalls |-> Len(list), fetchedAt |-> createCount,
            fromStore |-> fromStore]
         cached(data) ==
           /\ storeOp' = [data |-> data, lastUpdated |-> hr.now]
           /\ handlers' = [handlers EXCEPT ![h] =
                [hr EXCEPT !.pc = "done", !.served = "store", !.code = 200,
                           !.data = data]]
     IN \E result \in {"ok", "quota", "error"} :
          IF result = "ok" THEN cached(fresh(GetActiveCalls(calls), TRUE))
          ELSE IF result = "quota" /\ controller = "quotaGivesEmptyList"
          THEN cached(fresh(<<>>, FALSE))
          ELSE /\ UNCHANGED storeOp
               /\ handlers' = [handlers EXCEPT ![h] =
                    IF result = "quota" /\ storeOp.data # <<>>
                    THEN [hr EXCEPT !.pc = "done", !.served = "cache",
                                    !.code = 200, !.data = storeOp.data]
                    ELSE [hr EXCEPT !.pc = "done", !.code = 500]]
  /\ UNCHANGED <<calls, broadcasts, dispatch, createCount, response, cancel>>
  /\ UNCHANGED <<controller, callStates, provider, timers, monitor>>

SpecChannelStatus ==
  /\ calls \in InitialStores
  /\ broadcasts = <<>>
  /\ dispatch = IdleDispatch
  /\ createCount = CacheTtl
  /\ response = <<>>
  /\ controller \in {"everyErrorThrown", "quotaGivesEmptyList"}
  /\ handlers = [h \in Slots |->
                   [pc |-> "free", now |-> 0, served |-> "none", code |-> 0,
                    data |-> <<>>]]
  /\ callStates = <<>>
  /\ provider = <<>>
  /\ timers = <<>>
  /\ monitor = <<>>
  /\ cancel = IdleCancel
  /\ storeOp = [data |-> <<>>, lastUpdated |-> 0]
  /\ [][\/ ChannelClockAdvances
        \/ \E h \in Slots : ChannelStatusRequest(h)
        \/ \E h \in Slots : ChannelStatusFetch(h)]_vars

-----------------------------------------------------------------------------
(* Claims about the batch dispatch, checked under SpecDispatch *)

\* the request passed validation: it has n >= 1 valid phone numbers and a content
Validated == dispatch.path # "invalid" /\ Len(dispatch.phoneNumbers) > 0

\* C1: every success response of a dispatch with n valid phone numbers carries
\* exactly n callSids, whatever number of call legs the provider returned.
C1_CallSidsCountEqualsPhoneCount ==
  \A i \in 1..Len(response) :
    response[i].success =>
      Len(response[i].callSids) = Len(dispatch.phoneNumbers)

\* C6: a dispatch sends never more than 2 call-creation requests; once it has
\* answered it has sent exactly 2 when the first attempt failed with a
\* capacity error (detail 'channel limit exceeded' or HTTP 403) and exactly 1
\* in every other case.
C6_CreateRequestCount ==
  /\ createCount <= 2
  /\ (dispatch.pc = "done" /\ Validated) =>
       createCount =
         IF \/ dispatch.firstError.detail = "channel limit exceeded"
            \/ dispatch.firstError.status = 403
         THEN 2 ELSE 1

C6_Witness ==
  /\ dispatch.pc = "done"
  /\ dispatch.firstError.status = 403
  /\ dispatch.firstError.detail # "channel limit exceeded"
  /\ createCount = 2

\* record i (0-based) of a dispatch whose call creation failed for good
IsSyntheticRecordOf(d, i) ==
  LET sid == <<"synthetic", i>> IN
  /\ HasRecord(calls, sid)
  /\ calls[sid].status = "pending"
  /\ calls[sid].isSynthetic
  /\ calls[sid].phoneNumber = At(d.phoneNumbers, i)
  /\ calls[sid].contactId = At(d.contactIds, i)
  /\ calls[sid].contactName = At(d.contactNames, i)
  /\ calls[sid].script = At(d.contents, i)

\* call creation failed for good: a capacity error whose retry failed too, or
\* any other error of the first attempt
CreationFailed ==
  /\ dispatch.pc = "done"
  /\ dispatch.path \in {"generic", "retryFailed"}

\* C7: when call creation finally fails for a dispatch of n phone numbers (and
\* no store write fails), the store holds one synthetic pending record per
\* destination, index-aligned, and the response returns the n synthetic ids.
C7_SyntheticRecordPerDestination ==
  (CreationFailed /\ dispatch.storeErrors = 0) =>
    /\ \A i \in 0..(Len(dispatch.phoneNumbers) - 1) :
         IsSyntheticRecordOf(dispatch, i)
    /\ Len(response) = 1
    /\ response[1].callSids = SyntheticCallSids(dispatch.phoneNumbers)

\* C8: a dispatch request with a valid phone number and a content is always
\* answered with the success response (201, success = true).
C8_DispatchNeverFails ==
  Validated =>
    \A i \in 1..Len(response) :
      response[i].status = 201 /\ response[i].success

-----------------------------------------------------------------------------
(* Claims about the status-tracking controller, checked under SpecStatus *)

\* C2: whatever webhook events are delivered for a call id, at most one speak
\* request carrying the call's script is sent for it.
C2_ScriptSpokenAtMostOnce ==
  \A c \in CallIds : provider[c].script <= 1

\* C10: the status a call.hangup handler writes to the record depends on the
\* payload alone: BUSY gives busy, NO_ANSWER gives no-answer, CANCEL gives
\* canceled, for every call duration and every earlier status of the record.
C10_HangupStatusFromCause ==
  [][\A h \in Slots :
       LET hr == handlers[h] IN
       (hr.pc = "updateWrite" /\ hr.event.type = "call.hangup" /\ calls' # calls)
         => /\ hr.event.cause = "BUSY" => calls'[hr.call].status = "busy"
            /\ hr.event.cause = "NO_ANSWER" => calls'[hr.call].status = "no-answer"
            /\ hr.event.cause = "CANCEL" => calls'[hr.call].status = "canceled"]_vars

\* a call that had been answered ends BUSY after 0 seconds
C10_Witness ==
  \E c \in CallIds :
    /\ HasRecord(calls, c)
    /\ calls[c].answered
    /\ calls[c].hangupCause = "BUSY"
    /\ calls[c].duration = 0
    /\ calls[c].status = "busy"

-----------------------------------------------------------------------------
(* Claims about the consent-flow controller *)

\* C3 (SpecConsent): the scriptPlayed flag the callStates map holds for a call
\* id goes from false to true at most once, whatever events are delivered,
\* events after a call.hangup included.
C3_ScriptPlayedRisesOnce ==
  \A c \in CallIds : callStates[c].rises <= 1

\* C4 (SpecConsent): for a call with a stored script (which the handlers'
\* store reads return), after machine-detection result machine and then two
\* greeting-ended events handled one after the other, exactly one speak
\* request has been sent for the call.
C4_OneSpeakForTwoGreetings ==
  \A c \in CallIds :
    /\ monitor[c] # "prompt"
    /\ (/\ monitor[c] = "greet2"
        /\ ~HandlerRuns(c)
        /\ HasRecord(calls, c)
        /\ calls[c].script # Undefined)
       => provider[c].script = 1

C4_Witness ==
  \E c \in CallIds :
    /\ monitor[c] = "greet2"
    /\ ~HandlerRuns(c)
    /\ HasRecord(calls, c)
    /\ calls[c].script # Undefined
    /\ ScriptPlayedFlag(callStates[c])
    /\ provider[c].script = 1

\* C5 (SpecConsentRace): two handlers of qualifying events for the same call
\* id never both find scriptPlayed false on the call's state and both send
\* the speak request.
C5_NoTwoSpeakersAfterFalse ==
  \A h1, h2 \in Slots :
    (/\ h1 # h2
     /\ handlers[h1].call = handlers[h2].call
     /\ handlers[h1].obj = handlers[h2].obj
     /\ handlers[h1].sawFalse
     /\ handlers[h2].sawFalse)
    => ~(handlers[h1].spoke /\ handlers[h2].spoke)

-----------------------------------------------------------------------------
(* Claims about both webhook controllers, checked under SpecWebhook *)

\* C9: every webhook request is answered exactly once, with status 200,
\* whatever its event and whatever store operation or provider request of it
\* failed; nothing is sent before the handler returns.
C9_OneResponseWithStatus200 ==
  \A h \in Slots :
    IF handlers[h].pc = "done"
    THEN handlers[h].resp = <<200>>
    ELSE handlers[h].resp = <<>>

\* a request one of whose store operations failed has been answered
C9_Witness ==
  \E h \in Slots :
    /\ handlers[h].pc = "done"
    /\ handlers[h].failed
    /\ handlers[h].resp = <<200>>

-----------------------------------------------------------------------------
(* Claims about the hangup after the script, checked under SpecStatus *)

\* C11: for a call whose record has an answeredAt, the hangup that a
\* speak-ended handler schedules (a timer runs its callback no earlier than
\* Date.now() plus its delay) is never due before answeredAt plus
\* MIN_ANSWERED_DURATION_SECS, on the fallback path of a failed read too.
C11_HangupNotBeforeMinDuration ==
  \A h \in Slots :
    LET t == handlers[h].timer IN
    (t # NoTimer /\ t.answeredAtMs # NullMs) =>
      t.nowMs + t.waitMs >=
        t.answeredAtMs + (MIN_ANSWERED_DURATION_SECS * MsPerSecond)

-----------------------------------------------------------------------------
(* Claims about the cancellation *)

\* the records of the canceled broadcast that were not final when the
\* request started
NonTerminalAtStart ==
  {id \in DOMAIN cancel.started :
     /\ cancel.started[id].broadcastId = cancel.broadcastId
     /\ cancel.started[id].status \notin TerminalStatuses}

\* C12 (SpecCancel): once a cancellation of a broadcast has completed (and no
\* hangup request and no store operation of it failed), every record of the
\* broadcast that was pending, initiated, ringing, answered, voicemail or
\* in-progress when it started has status canceled.
C12_NonTerminalRecordsCanceled ==
  (/\ cancel.pc = "done"
   /\ cancel.broadcastId # Undefined
   /\ cancel.resp[1].success
   /\ cancel.hangupFailed = {}
   /\ cancel.writeFailed = {})
  => \A id \in NonTerminalAtStart : calls[id].status = "canceled"

\* C13 (SpecCancelRace): the status write of a cancellation of a broadcast
\* changes only the record it is made for, a record of that broadcast, and
\* never a record whose status is final at the moment of the write, webhooks
\* handled between the cancellation's read and its write included.
C13_CancelLeavesTerminalRecords ==
  [][(/\ cancel.pc = "updateWrite"
      /\ cancel.broadcastId # Undefined
      /\ cancel' # cancel
      /\ calls' # calls)
     => LET id == CancelCurrent(cancel) IN
        /\ calls[id].status \notin TerminalStatuses
        /\ calls[id].broadcastId = cancel.broadcastId
        /\ \A other \in DOMAIN calls \ {id} : calls'[other] = calls[other]]_vars

\* C14 (SpecCancel): with or without a broadcastId, a selected call whose
\* hangup request failed (and whose status write did not fail) has status
\* canceled and is counted in canceledCount when the request completes.
C14_HangupFailureStillCancels ==
  (cancel.pc = "done" /\ cancel.resp[1].success) =>
    /\ cancel.resp[1].canceledCount = Cardinality(cancel.counted)
    /\ \A id \in cancel.hangupFailed \ cancel.writeFailed :
         /\ calls[id].status = "canceled"
         /\ id \in cancel.counted

-----------------------------------------------------------------------------
(* Claims about late webhook events *)

\* C15 (SpecConsentLate): for a call whose record has a final status
\* (completed, no-answer, busy, canceled, rejected, failed), no webhook event
\* handled afterwards sends a speak request with the script for that call.
C15_NoSpeakForTerminalRecord ==
  \A c \in CallIds :
    (HasRecord(calls, c) /\ calls[c].status \in TerminalStatuses)
      => provider[c].script = 0

-----------------------------------------------------------------------------
(* Claims about machine detection *)

\* C16 (SpecStatus): the handler of a machine-detection event with result
\* machine writes status voicemail to the record and sends no speak request:
\* the script is left for the greeting-ended event.
C16_MachineDetectionDoesNotSpeak ==
  [][\A h \in Slots :
       LET hr == handlers[h] IN
       (/\ hr.event.type = "call.machine.detection.ended"
        /\ hr.event.result = "machine"
        /\ handlers'[h] # hr)
       => /\ provider' = provider
          /\ (hr.pc = "updateWrite" /\ calls' # calls)
               => calls'[hr.call].status = "voicemail"]_vars

-----------------------------------------------------------------------------
(* Claims about the store, checked under SpecStore *)

\* C17: in every store implementation, updateCallStatus for a call id that
\* has no record returns ok and leaves a record with the status passed.
C17_UpdateCreatesMissingRecord ==
  (storeOp.store # "none" /\ ~storeOp.found) =>
    /\ storeOp.ok
    /\ HasRecord(calls, storeOp.id)
    /\ calls[storeOp.id].status = storeOp.status

-----------------------------------------------------------------------------
(* Claims about the records of a dispatch, checked under SpecDispatch *)

\* C18: of a dispatch with k scripts, the record stored for destination i
\* (0-based) carries script i when i < k and script 0 when i >= k; with one
\* script every record carries it.
C18_ScriptPerDestination ==
  \A i \in 0..(Len(dispatch.sids) - 1) :
    HasRecord(calls, dispatch.sids[i + 1]) =>
      calls[dispatch.sids[i + 1]].script =
        IF i < Len(dispatch.contents)
        THEN At(dispatch.contents, i)
        ELSE At(dispatch.contents, 0)

\* the broadcast's records in the store
BroadcastRecords == {id \in DOMAIN calls : calls[id].broadcastId = 1}

\* C20: after a dispatch of n valid phone numbers has answered success (no
\* store write having failed), the store holds exactly n records with the
\* dispatch's broadcastId, all pending, one per returned call id, and one
\* session of the broadcast with totalCalls = n.
C20_RecordsAndSessionAfterSuccess ==
  (/\ dispatch.pc = "done"
   /\ dispatch.storeErrors = 0
   /\ Len(response) = 1
   /\ response[1].success)
  => LET n == Len(dispatch.phoneNumbers) IN
     /\ Cardinality(BroadcastRecords) = n
     /\ \A id \in BroadcastRecords : calls[id].status = "pending"
     /\ BroadcastRecords = {response[1].callSids[j] :
                              j \in 1..Len(response[1].callSids)}
     /\ DOMAIN broadcasts = {BroadcastIdOf}
     /\ broadcasts[BroadcastIdOf].totalCalls = n

-----------------------------------------------------------------------------
(* Claims about malformed webhook requests, checked under SpecWebhook *)

\* C19: a webhook request without a call id is answered with 200 in the step
\* it arrives in, and that step changes no call record, no entry of the
\* callStates map, and sends no provider request and sets no timer.
C19_RequestWithoutCallIdDropped ==
  [][\A h \in Slots :
       (handlers'[h] # handlers[h] /\ handlers'[h].call = NoCallId)
       => /\ ~Active(handlers[h])
          /\ handlers'[h].pc = "done"
          /\ handlers'[h].resp = <<200>>
          /\ UNCHANGED <<calls, callStates, provider, timers>>]_vars

\* the consent-flow controller has answered a request without a call id; no
\* record and no call state exists
C19_Witness ==
  \E h \in Slots :
    /\ controller = "consentFlow"
    /\ handlers[h].pc = "done"
    /\ handlers[h].call = NoCallId
    /\ handlers[h].resp = <<200>>
    /\ DOMAIN calls = {}
    /\ \A c \in CallIds : ~HasState(callStates[c]) /\ provider[c].script = 0

\* the number of requests named `what` among those a handler issued
Count(issued, what) ==
  Cardinality({i \in DOMAIN issued : issued[i] = what})

\* C21: a call.hangup event whose cause triggers the SMS fallback (BUSY is one
\* of the causes the policy names), for a call whose record has a script and a
\* destination number, has sent exactly one SMS request by the time its
\* handler returns, and the record's status is terminal then unless the store
\* write itself failed
C21_HangupSendsOneSms ==
  [][\A h \in Slots :
       LET hr == handlers[h] IN
       (/\ hr.event.type = "call.hangup"
        /\ hr.event.cause = "BUSY"
        /\ Active(hr)
        /\ handlers'[h].pc = "done"
        /\ HasRecord(calls, hr.call)
        /\ GetCallData(calls, hr.call).script # Undefined)
         => /\ Count(handlers'[h].issued, "sms") = 1
            /\ ~handlers'[h].failed
                 => calls'[hr.call].status \in TerminalStatuses]_vars

C23_CountsOnlyTheBroadcast ==
  storeOp.store # "none" =>
    storeOp.counts.total
      = Cardinality({id \in DOMAIN calls :
                       storeOp.broadcastId # Undefined
                         => calls[id].broadcastId = storeOp.broadcastId})

\* C24: in every dispatch the session of the new broadcastId is in the store
\* by the time the first call-creation request is sent, and every call record
\* that carries a broadcastId names a stored session
C24_SessionBeforeCallsAndRecords ==
  /\ createCount > 0 => BroadcastIdOf \in DOMAIN broadcasts
  /\ \A id \in DOMAIN calls :
       calls[id].broadcastId # Undefined
         => <<"broadcast", calls[id].broadcastId>> \in DOMAIN broadcasts

\* C25: the delay waited before the capacity retry is
\* min(20000 + 10000 * h, 120000) ms for h capacity hits so far, is never above
\* 120000 ms, and grows strictly from one hit to the next below the cap; and
\* the channelLimitHits of the dispatch's response is the number of
\* capacity-limit errors the dispatch met
C25_BackoffAndHitCount ==
  /\ dispatch.pc = "retry" =>
       /\ dispatch.waited
            = Min(20000 + (10000 * dispatch.channelLimitHits), 120000)
       /\ dispatch.waited <= 120000
  /\ \A h \in 0..12 :
       WaitTime(h) < 120000 => WaitTime(h + 1) > WaitTime(h)
  /\ (dispatch.pc = "done" /\ Validated) =>
       response[1].channelLimitHits
         = (IF IsChannelLimitError(dispatch.firstError) THEN 1 ELSE 0)
             + (IF IsChannelLimitError(dispatch.retryError) THEN 1 ELSE 0)

\* C26: a provider action that fails inside a webhook handler does not end the
\* event's processing: after a failed speak on call.answered the record still
\* has the answered status the handler wrote and the request is acknowledged;
\* after a failed re-prompt speak the handler goes on to the gather request
\* and sends it; a failed goodbye speak is followed by the hangup timer
C26_FailedActionDoesNotAbort ==
  [][\A h \in OneSlot :
       LET hr == handlers[h]
           after == handlers'[h]
       IN /\ (/\ hr.pc = "speak" /\ controller = "callControl"
              /\ hr.event.type = "call.answered"
              /\ after.errors # <<>>)
               => /\ calls' = calls
                  /\ calls'[hr.call].status = "answered"
                  /\ after.pc = "done" /\ after.resp = <<200>>
          /\ (hr.pc = "speakPrompt" /\ after.errors # <<>>)
               => after.pc = "gather"
          /\ (hr.pc = "gather" /\ hr.errors # <<>> /\ after # hr)
               => /\ after.pc = "done"
                  /\ after.issued = <<RepromptOf(hr.event), "gather">>
          /\ (hr.pc = "speakGoodbye" /\ after.errors # <<>>)
               => /\ after.issued = <<GoodbyeOf(hr.event), "setTimeout">>
                  /\ timers'[hr.call] = timers[hr.call] + 1]_vars

\* the re-prompt speak of a handler failed and its gather was sent
C26_Witness ==
  \E h \in OneSlot :
    /\ handlers[h].pc = "done"
    /\ handlers[h].errors = <<"speak:invalidInput">>
    /\ handlers[h].issued = <<"speak:invalidInput", "gather">>

\* C27: a dispatch in which a store write failed (the session or a call
\* record) is answered as when every write succeeds: with the success
\* response carrying the ids of the calls that were created; and a webhook
\* handler in which a store operation failed acknowledges with 200
C27_StoreFailureKeepsResponse ==
  /\ (dispatch.pc = "done" /\ dispatch.path # "invalid"
        /\ dispatch.storeErrors > 0)
       => /\ response[1].status = 201
          /\ response[1].success
          /\ response[1].callSids = dispatch.sids
  /\ \A h \in DOMAIN handlers :
       (handlers[h].pc = "done" /\ handlers[h].failed)
         => handlers[h].resp = <<200>>

\* C28: when the status-tracking handler of a call.speak.ended event returns,
\* the record's status is completed and the handler has set exactly one hangup
\* timer for the call: the one with the computed delay or the one with the
\* default delay
C28_SpeakEndedSchedulesOneHangup ==
  [][\A h \in OneSlot :
       LET hr == handlers[h]
           after == handlers'[h]
       IN (/\ controller = "callControl"
           /\ hr.event.type = "call.speak.ended"
           /\ hr.call # NoCallId
           /\ Active(hr)
           /\ after.pc = "done")
            => /\ HasRecord(calls', hr.call)
               /\ calls'[hr.call].status = "completed"
               /\ Count(after.issued, "setTimeout") = 1
               /\ after.timer # NoTimer]_vars

\* C29: when the handler of a call.initiated event returns, for direction
\* incoming it has issued exactly one transfer and its last step wrote no call
\* record, and for an outbound call it has issued no transfer and the record's
\* status is initiated
C29_InitiatedByDirection ==
  [][\A h \in OneSlot :
       LET hr == handlers[h]
           after == handlers'[h]
       IN (/\ hr.event.type = "call.initiated"
           /\ Active(hr)
           /\ after.pc = "done")
            => IF hr.event.direction = "incoming"
               THEN /\ after.issued = <<"transfer">>
                    /\ calls' = calls
               ELSE /\ Count(after.issued, "transfer") = 0
                    /\ ~after.failed
                         => /\ HasRecord(calls', hr.call)
                            /\ calls'[hr.call].status = "initiated"]_vars

\* C30: whatever gather-ended events with invalid digits or a timeout arrive
\* for a call id, with other events in between, the gather is issued again at
\* most 2 times for that call id: only while the incremented gatherAttempts is
\* below 3
C30_AtMostTwoGatherReissues ==
  \A c \in CallIds : provider[c].gather <= GatherAttemptLimit - 1

\* C31: a step of the handler of a webhook event for call id A leaves the
\* stored record, the in-memory state, the provider requests and the timers of
\* every other call id B as they were, whatever handlers of other call ids are
\* suspended at that moment
C31_OtherCallsUntouched ==
  [][\A h \in Slots :
       handlers'[h] # handlers[h] =>
         LET a == IF Active(handlers[h]) THEN handlers[h].call
                  ELSE handlers'[h].call
         IN \A b \in DOMAIN timers \ {a} :
              /\ HasRecord(calls', b) = HasRecord(calls, b)
              /\ GetCallData(calls', b) = GetCallData(calls, b)
              /\ callStates'[b] = callStates[b]
              /\ provider'[b] = provider[b]
              /\ timers'[b] = timers[b]]_vars

\* the handler of one call has spoken its script and returned while a handler
\* of the other call is suspended at an await
C31_Witness ==
  /\ handlers[1].pc = "done" /\ handlers[1].spoke
  /\ handlers[1].call = <<"leg", 1>>
  /\ Active(handlers[2]) /\ handlers[2].call = <<"leg", 2>>
  /\ provider[<<"leg", 1>>].script = 1
  /\ provider[<<"leg", 2>>].script = 0

\* C35: when the dispatcher's storeCallData runs for a call id whose record a
\* webhook status update has already written, the record afterwards has the
\* webhook's status and answeredAt together with the dispatcher's script,
\* phone number and broadcastId
C35_StoreKeepsWebhookStatus ==
  [][(/\ storeOp'.store = "storeCallData"
      /\ HasRecord(calls, storeOp'.id)
      /\ calls[storeOp'.id].status # "pending")
       => LET before == calls[storeOp'.id]
              after == calls'[storeOp'.id]
          IN /\ after.status = before.status
             /\ after.answered = before.answered
             /\ after.script = 1 /\ after.phoneNumber = 1
             /\ after.broadcastId = 1]_vars

\* C32: the write of a webhook handler's updateCallStatus on a call id that
\* has a record leaves the record's script, phoneNumber, contactId,
\* contactName and broadcastId as they were
C32_UpdateKeepsDispatchFields ==
  [][\A h \in Slots :
       LET id == handlers[h].call IN
       (/\ handlers[h].pc = "updateWrite"
        /\ handlers'[h] # handlers[h]
        /\ HasRecord(calls, id))
         => /\ HasRecord(calls', id)
            /\ calls'[id].script = calls[id].script
            /\ calls'[id].phoneNumber = calls[id].phoneNumber
            /\ calls'[id].contactId = calls[id].contactId
            /\ calls'[id].contactName = calls[id].contactName
            /\ calls'[id].broadcastId = calls[id].broadcastId]_vars

\* C33: two invocations of the dispatch endpoint never hold the same
\* broadcastId, also when both generate it at the same clock millisecond
C33_DistinctBroadcastIds ==
  \A i, j \in DOMAIN dispatch :
    (i # j /\ dispatch[i].pc # "idle" /\ dispatch[j].pc # "idle")
      => dispatch[i].broadcastId # dispatch[j].broadcastId

\* C34: the dispatcher never has more than 8 destination call creations
\* outstanding at the provider at one time, whatever the size of the batch
C34_AtMostEightOutstanding == provider.outstanding <= 8

\* C36: once a record's status is terminal, no step sets it to a non-terminal
\* status, so getActiveCalls never lists the call again
C36_TerminalStatusStays ==
  [][\A c \in DOMAIN calls :
       calls[c].status \in TerminalStatuses
         => /\ c \in DOMAIN calls'
            /\ calls'[c].status \notin
                 {"initiated", "ringing", "answered", "voicemail", "in-progress"}
            /\ c \notin {id \in DOMAIN calls' :
                           calls'[id].status \in ActiveStatuses}]_vars

\* C37: for every store content, with records in any of the twelve statuses,
\* the result of getCallCounts has
\* total = totalCompleted + totalFailed + totalPending
C37_TotalIsSumOfAggregates ==
  storeOp.store # "none" =>
    /\ "totalPending" \in DOMAIN storeOp.counts
    /\ storeOp.counts.total
         = storeOp.counts.totalCompleted + storeOp.counts.totalFailed
             + storeOp.counts.totalPending

\* C38: every response of GET /api/channel-status served from the cache
\* carries data that was fetched from the store less than ttl before the
\* request read the clock, also when the request's own store query failed
C38_CachedResponseYoungerThanTtl ==
  \A h \in DOMAIN handlers :
    (handlers[h].pc = "done" /\ handlers[h].served = "cache")
      => /\ handlers[h].data.fromStore
         /\ handlers[h].now - handlers[h].data.fetchedAt < CacheTtl

\* C39: in the consent-flow handler the scriptPlayed flag of a call goes from
\* false to true only in the step of a speak request with the script that
\* completed without an error; after a failed speak request the flag is
\* still false
C39_ScriptPlayedOnlyAfterSpeakSucceeded ==
  [][\A c \in DOMAIN callStates :
       (~ScriptPlayedFlag(callStates[c]) /\ ScriptPlayedFlag(callStates'[c]))
         => \E h \in DOMAIN handlers :
              /\ handlers[h].pc = "speakScript"
              /\ handlers[h].call = c
              /\ handlers'[h] # handlers[h]
              /\ handlers'[h].errors = handlers[h].errors]_vars

\* C40: in the consent-flow handler a speak request carrying the script is
\* sent for a call whose machine-detection result is human only when the
\* call's state has consentGiven = true, set by a gather-ended event with
\* status valid and digit 1
C40_HumanHearsScriptOnlyAfterConsent ==
  [][\A h \in DOMAIN handlers :
       LET hr == handlers[h] IN
       (/\ hr.pc = "speakScript"
        /\ handlers'[h] # hr
        /\ callStates[hr.call].objs[hr.obj].amdResult = "human")
         => callStates[hr.call].objs[hr.obj].consentGiven]_vars

====
